---- MODULE Spec2Model ----
(***************************************************************************)
(* A model of quizmd: the answer evaluator (evaluator.py), the question    *)
(* generator (question_generator.py) and the quiz runner (quiz_runner.py). *)
(* Texts are TLA+ strings, handled character by character with Len, SubSeq *)
(* and \o, so that normalisation, containment and the matching-blocks      *)
(* ratio are computed as the Python code computes them.                    *)
(***************************************************************************)
EXTENDS Integers, Sequences, FiniteSets, TLC

VARIABLES
    \* AnswerEvaluator and one evaluate_answer call
    similarity_threshold, user_answer, correct_answer, verdict,
    \* a text given to _normalize_text, and what it returned for it and then
    \* for each of its own results in turn
    given_text, normalized,
    \* one _generate_question_from_sentence call: its argument, how NLTK
    \* behaves, and what it returned
    sentence, tagger, q_data,
    \* QuestionGenerator: whether __init__ returned or raised, self.sentences,
    \* self.vectorizer, and the last call made on it with what it returned
    generator, sentences, vectorizer, op, ranking, questions, attempts,
    \* what the last answer_question call returned
    answered,
    \* QuizRunner: self.results, what the last run_quiz returned, and the last
    \* explain_question call if nothing was called since
    results, returned, explained

evalVars == <<similarity_threshold, user_answer, correct_answer, verdict,
               given_text, normalized>>
synthVars == <<sentence, tagger, q_data>>
genVars == <<generator, sentences, vectorizer, op, ranking, questions, attempts, answered>>
quizVars == <<results, returned, explained>>

vars == <<evalVars, synthVars, genVars, quizVars>>

(***************************************************************************)
(* Python str primitives                                                   *)
(***************************************************************************)
Ch(s, i) == SubSeq(s, i, i)

LOWER == "abcdefghijklmnopqrstuvwxyz"
UPPER == "ABCDEFGHIJKLMNOPQRSTUVWXYZ"
DIGITS == "0123456789"

CharsOf(s) == {Ch(s, i) : i \in 1..Len(s)}

LowerSet == CharsOf(LOWER)
UpperSet == CharsOf(UPPER)
DigitSet == CharsOf(DIGITS)
SpaceSet == {" ", "\t", "\n"}

\* the characters the regular expression class \w matches
WordSet == LowerSet \cup UpperSet \cup DigitSet \cup {"_"}

LowerOf == [c \in UpperSet |-> Ch(LOWER, CHOOSE i \in 1..Len(UPPER) : Ch(UPPER, i) = c)]
UpperOf == [c \in LowerSet |-> Ch(UPPER, CHOOSE i \in 1..Len(LOWER) : Ch(LOWER, i) = c)]

Min(a, b) == IF a < b THEN a ELSE b
Max(a, b) == IF a > b THEN a ELSE b

lowerChar(c) == IF c \in UpperSet THEN LowerOf[c] ELSE c

\* str.lower()
RECURSIVE lower(_)
lower(s) ==
    IF Len(s) <= 1 THEN lowerChar(s)
    ELSE lower(SubSeq(s, 1, Len(s) \div 2)) \o lower(SubSeq(s, Len(s) \div 2 + 1, Len(s)))

\* str.lstrip() / str.rstrip() / str.strip() with no argument: whitespace
RECURSIVE lstrip(_)
lstrip(s) == IF s # "" /\ Head(s) \in SpaceSet THEN lstrip(Tail(s)) ELSE s

RECURSIVE rstrip(_)
rstrip(s) ==
    IF s # "" /\ Ch(s, Len(s)) \in SpaceSet THEN rstrip(SubSeq(s, 1, Len(s) - 1)) ELSE s

strip(s) == lstrip(rstrip(s))

\* str.rstrip(chars)
RECURSIVE rstripChars(_, _)
rstripChars(s, chars) ==
    IF s # "" /\ Ch(s, Len(s)) \in chars
    THEN rstripChars(SubSeq(s, 1, Len(s) - 1), chars)
    ELSE s

\* the length of the leading run of characters of s that are not whitespace
RECURSIVE WordLen(_)
WordLen(s) == IF s = "" \/ Head(s) \in SpaceSet THEN 0 ELSE 1 + WordLen(Tail(s))

\* str.split() with no argument: the maximal runs of non-whitespace
RECURSIVE split(_)
split(s) ==
    LET t == lstrip(s)
        n == WordLen(t)
    IN IF t = "" THEN <<>>
       ELSE <<SubSeq(t, 1, n)>> \o split(SubSeq(t, n + 1, Len(t)))

\* sep.join(words)
RECURSIVE join(_, _)
join(sep, words) ==
    IF words = <<>> THEN ""
    ELSE IF Len(words) = 1 THEN words[1]
    ELSE words[1] \o sep \o join(sep, Tail(words))

\* Python's  needle in hay
IsSubstring(needle, hay) ==
    \E i \in 1..(Len(hay) - Len(needle) + 1) :
        SubSeq(hay, i, i + Len(needle) - 1) = needle

\* Python's  s[:n]  for n >= 0
Prefix(s, n) == SubSeq(s, 1, Min(n, Len(s)))

\* Python's  s[n:]  for n >= 0
Suffix(s, n) == SubSeq(s, n + 1, Len(s))

\* the 1-based position of the last character of s in chars, 0 if there is none
LastIndexIn(s, chars) ==
    LET at == {i \in 1..Len(s) : Ch(s, i) \in chars}
    IN IF at = {} THEN 0 ELSE CHOOSE i \in at : \A j \in at : j <= i

\* s.rsplit(' ', 1)[0]: what precedes the last space, s itself without one
BeforeLastSpace(s) ==
    LET i == LastIndexIn(s, {" "}) IN IF i = 0 THEN s ELSE SubSeq(s, 1, i - 1)

\* text[:limit].rsplit(' ', 1)[0] + '...'
Shorten(text, limit) == BeforeLastSpace(Prefix(text, limit)) \o "..."

\* the 1-based position where the run of characters in chars (not in chars,
\* for RunEndNot) that starts at position p of s ends: the first position at
\* or after p holding another character, Len(s) + 1 if there is none
RunEnd(s, p, chars) ==
    IF p > Len(s) THEN p ELSE
    CHOOSE q \in p..(Len(s) + 1) :
        /\ q = Len(s) + 1 \/ Ch(s, q) \notin chars
        /\ \A r \in p..(q - 1) : Ch(s, r) \in chars

RunEndNot(s, p, chars) ==
    IF p > Len(s) THEN p ELSE
    CHOOSE q \in p..(Len(s) + 1) :
        /\ q = Len(s) + 1 \/ Ch(s, q) \in chars
        /\ \A r \in p..(q - 1) : Ch(s, r) \notin chars

\* literal text at position p of s
LitAt(s, p, lit) ==
    p >= 1 /\ p + Len(lit) - 1 <= Len(s) /\ SubSeq(s, p, p + Len(lit) - 1) = lit

\* the regular expression  \b(w1|w2|...)\b  found in the lowercased text ls
HasWord(ls, words) ==
    \E w \in words : \E p \in 1..(Len(ls) - Len(w) + 1) :
        /\ LitAt(ls, p, w)
        /\ p = 1 \/ Ch(ls, p - 1) \notin WordSet
        /\ p + Len(w) > Len(ls) \/ Ch(ls, p + Len(w)) \notin WordSet

\* re.sub(r'\s+(w1|w2|...)$', '', text, flags=re.IGNORECASE) on a text that
\* does not end in a newline: one trailing word and the whitespace before it
DropLastWord(text, words) ==
    LET ls == lower(text)
        hits == {p \in 2..Len(text) :
                    Suffix(ls, p - 1) \in words /\ Ch(text, p - 1) \in SpaceSet}
    IN IF hits = {} THEN text
       ELSE rstrip(SubSeq(text, 1, (CHOOSE p \in hits : TRUE) - 1))

(***************************************************************************)
(* difflib.SequenceMatcher(None, a, b).ratio() for len(b) < 200, where the *)
(* automatic junk heuristic is off.  Indices are Python's: 0-based, the    *)
(* ranges half open.                                                       *)
(***************************************************************************)
RECURSIVE CommonLen(_, _, _, _, _, _)
CommonLen(a, b, i, j, ahi, bhi) ==
    IF i < ahi /\ j < bhi /\ Ch(a, i + 1) = Ch(b, j + 1)
    THEN 1 + CommonLen(a, b, i + 1, j + 1, ahi, bhi)
    ELSE 0

\* the longest block a[i:i+k] = b[j:j+k] inside the ranges; of the longest,
\* the one starting earliest in a, and of those the earliest in b
find_longest_match(a, b, alo, ahi, blo, bhi) ==
    LET cands == {<<i, j, CommonLen(a, b, i, j, ahi, bhi)>> :
                      i \in alo..(ahi - 1), j \in blo..(bhi - 1)}
        good == {m \in cands : m[3] > 0}
    IN IF good = {} THEN <<alo, blo, 0>>
       ELSE CHOOSE m \in good :
                \A o \in good :
                    \/ m[3] > o[3]
                    \/ m[3] = o[3] /\ m[1] < o[1]
                    \/ m[3] = o[3] /\ m[1] = o[1] /\ m[2] <= o[2]

\* the total size of the blocks get_matching_blocks() returns
RECURSIVE MatchedChars(_, _, _, _, _, _)
MatchedChars(a, b, alo, ahi, blo, bhi) ==
    LET m == find_longest_match(a, b, alo, ahi, blo, bhi)
    IN IF m[3] = 0 THEN 0
       ELSE m[3]
            + (IF alo < m[1] /\ blo < m[2]
               THEN MatchedChars(a, b, alo, m[1], blo, m[2]) ELSE 0)
            + (IF m[1] + m[3] < ahi /\ m[2] + m[3] < bhi
               THEN MatchedChars(a, b, m[1] + m[3], ahi, m[2] + m[3], bhi) ELSE 0)

\* ratio() = 2.0 * matches / (len(a) + len(b)) as the fraction <<num, den>>
ratio(a, b) ==
    IF Len(a) + Len(b) = 0 THEN <<1, 1>>
    ELSE <<2 * MatchedChars(a, b, 0, Len(a), 0, Len(b)), Len(a) + Len(b)>>

\* fractions <<num, den>> with den > 0
FracGE(x, y) == x[1] * y[2] >= y[1] * x[2]
\* the comparison turned round
FracLT(x, y) == x[1] * y[2] < y[1] * x[2]
FracGT(x, y) == x[1] * y[2] > y[1] * x[2]

(***************************************************************************)
(* evaluator.py: AnswerEvaluator                                           *)
(***************************************************************************)
\* re.sub(r'[^\w\s]', '', text)
RECURSIVE RemovePunctuation(_)
RemovePunctuation(s) ==
    IF Len(s) <= 1 THEN (IF s \in WordSet \cup SpaceSet THEN s ELSE "")
    ELSE RemovePunctuation(SubSeq(s, 1, Len(s) \div 2))
         \o RemovePunctuation(SubSeq(s, Len(s) \div 2 + 1, Len(s)))

\* the punctuation removed after the whitespace is collapsed
_normalize_text_punctuation_last(text) ==
    strip(RemovePunctuation(join(" ", split(lower(text)))))

_normalize_text(text) ==
    strip(join(" ", split(RemovePunctuation(lower(text)))))

stop_words ==
    {"the", "a", "an", "and", "or", "but", "in", "on", "at", "to", "for",
     "of", "with", "by", "is", "are", "was", "were", "be", "been", "being",
     "have", "has", "had", "do", "does", "did", "will", "would", "should",
     "could", "may", "might", "must", "can", "this", "that", "these", "those"}

Range(seq) == {seq[i] : i \in 1..Len(seq)}

_extract_keywords(text) ==
    {w \in Range(split(_normalize_text(text))) : Len(w) > 2 /\ w \notin stop_words}

\* the score as a fraction <<num, den>>; the weights are 0.4 and 0.6
_fuzzy_match(text1, text2) ==
    LET norm1 == _normalize_text(text1)
        norm2 == _normalize_text(text2)
        similarity == ratio(norm1, norm2)
        keywords1 == _extract_keywords(text1)
        keywords2 == _extract_keywords(text2)
        overlap == Cardinality(keywords1 \cap keywords2)
        union == Cardinality(keywords1 \cup keywords2)
    IN IF norm1 = "" \/ norm2 = "" THEN <<0, 1>>
       ELSE IF keywords1 # {} /\ keywords2 # {}
       THEN <<4 * similarity[1] * union + 6 * overlap * similarity[2],
              10 * similarity[2] * union>>
       ELSE similarity

\* more than half of the important words asked for
MoreThanHalf(matches, total) == 2 * matches > total

\* matches >= len(important_words) * 0.5
HalfOrMore(matches, total) == 2 * matches >= total

_check_key_phrases(user_answer_, correct_answer_) ==
    LET user_norm == _normalize_text(user_answer_)
        correct_norm == _normalize_text(correct_answer_)
        correct_words == split(correct_norm)
        phrases == {correct_words[i] \o " " \o correct_words[i + 1] :
                        i \in 1..(Len(correct_words) - 1)}
        important == {i \in 1..Len(correct_words) : Len(correct_words[i]) > 4}
        matches == Cardinality({i \in important : IsSubstring(correct_words[i], user_norm)})
    IN IF Len(correct_words) < 2 THEN FALSE
       ELSE IF \E ph \in phrases : Len(ph) > 5 /\ IsSubstring(ph, user_norm) THEN TRUE
       ELSE IF important # {} THEN HalfOrMore(matches, Cardinality(important))
       ELSE FALSE

\* the length guard of line 169 left out
LongEnoughAlways(user_norm, correct_norm) == TRUE

\* len(user_norm) > len(correct_norm) * 0.7
LongEnough(user_norm, correct_norm) == 10 * Len(user_norm) > 7 * Len(correct_norm)

IncorrectPrefix == "Incorrect. The correct answer is: "

\* f"{similarity:.0%}": the percentage rounded to the nearest integer, a tie
\* going to the even one
Percent(x) ==
    LET q == (100 * x[1]) \div x[2]
        r2 == 2 * ((100 * x[1]) % x[2])
    IN IF r2 > x[2] \/ (r2 = x[2] /\ q % 2 = 1) THEN q + 1 ELSE q

RECURSIVE Digits(_)
Digits(n) == IF n < 10 THEN Ch(DIGITS, n + 1)
             ELSE Digits(n \div 10) \o Ch(DIGITS, (n % 10) + 1)

\* an answer without a keyword taken for no answer
IsBlankNoKeywords(user_answer_) == _extract_keywords(user_answer_) = {}

\* user_answer == "", the strip() of line 155 forgotten
IsBlankUnstripped(user_answer_) == user_answer_ = ""

\* not user_answer.strip()
IsBlank(user_answer_) == strip(user_answer_) = ""

\* the verdict of evaluate_answer, with the line of the return statement taken
evaluate_answer(threshold, user_answer_, correct_answer_) ==
    LET user_norm == _normalize_text(user_answer_)
        correct_norm == _normalize_text(correct_answer_)
        similarity == _fuzzy_match(user_answer_, correct_answer_)
        Right(line) == [is_correct |-> TRUE, feedback |-> "Correct!", line |-> line]
    IN IF IsBlank(user_answer_)
       THEN [is_correct |-> FALSE, feedback |-> IncorrectPrefix \o correct_answer_,
             line |-> 156]
       ELSE IF user_norm = correct_norm THEN Right(164)
       ELSE IF IsSubstring(correct_norm, user_norm) THEN Right(168)
       ELSE IF IsSubstring(user_norm, correct_norm) /\ LongEnough(user_norm, correct_norm)
       THEN Right(170)
       ELSE IF FracGE(similarity, threshold) THEN Right(176)
       ELSE IF _check_key_phrases(user_answer_, correct_answer_) THEN Right(180)
       ELSE [is_correct |-> FALSE,
             feedback |-> IncorrectPrefix \o correct_answer_ \o
                 (IF FracGT(similarity, <<3, 10>>)
                  THEN " (Your answer was close: " \o Digits(Percent(similarity))
                       \o "% similar)"
                  ELSE ""),
             line |-> 187]

NoVerdict == [is_correct |-> FALSE, feedback |-> "", line |-> 0]

\* _normalize_text has not been called on its own
NormIdle ==
    /\ given_text = ""
    /\ normalized = <<>>

EvalIdle ==
    /\ similarity_threshold = <<6, 10>>
    /\ user_answer = ""
    /\ correct_answer = ""
    /\ verdict = NoVerdict
    /\ NormIdle

(***************************************************************************)
(* question_generator.py: _generate_question_from_sentence.  Each strategy *)
(* is an operator giving [hit, question, answer]: hit says the strategy    *)
(* assigned `question`.  The regular expressions are matched as re.search  *)
(* matches them: leftmost start, lazy groups shortest first, greedy groups *)
(* longest first.  ls is the lowercased sentence (re.IGNORECASE).          *)
(***************************************************************************)
Letters == LowerSet \cup UpperSet
LetterOrSpace == Letters \cup SpaceSet

Miss == [hit |-> FALSE, question |-> "", answer |-> ""]
Hit(q, a) == [hit |-> TRUE, question |-> q, answer |-> a]

NoMatch == <<>>

\* the earliest / the latest of a non-empty set of positions
First(S) == CHOOSE x \in S : \A y \in S : x <= y
Last(S) == CHOOSE x \in S : \A y \in S : x >= y

\* a link is a sequence of literal parts with \s+ between them; the position
\* after the link that starts at position a of ls, 0 if it is not there
RECURSIVE LinkEnd(_, _, _)
LinkEnd(ls, a, parts) ==
    IF ~LitAt(ls, a, parts[1]) THEN 0
    ELSE IF Len(parts) = 1 THEN a + Len(parts[1])
    ELSE LET q == a + Len(parts[1])
             r == RunEnd(ls, q, SpaceSet)
         IN IF r = q THEN 0 ELSE LinkEnd(ls, r, Tail(parts))

\* the tail  \s+ LINK \s+ ([^.]{lo,hi})  of a pattern, tried at position p of
\* s, with ls the text the link is looked up in.  Gives <<>> or <<group>>:
\* the first \s+ takes the whole run of spaces, the last one gives spaces
\* back until lo characters other than '.' follow.
LinkThenText(s, ls, p, links, lo, hi) ==
    LET a == RunEnd(s, p, SpaceSet)
        \* the link ends before position q, where b spaces and R characters
        \* other than '.' follow; the last \s+ keeps c of the spaces
        Group(q, c, R) ==
            IF q > 0 /\ c >= 1
            THEN <<SubSeq(s, q + c, q + c + Min(hi, R - c) - 1)>>
            ELSE NoMatch
        Spaces(q, b, R) == Group(q, Min(b, R - lo), R)
        Try(q) == Spaces(q, RunEnd(s, q, SpaceSet) - q, RunEndNot(s, q, {"."}) - q)
        Found(ms) == IF ms = {} THEN NoMatch ELSE CHOOSE m \in ms : TRUE
    IN IF a = p THEN NoMatch
       ELSE Found({Try(LinkEnd(ls, a, k)) : k \in links} \ {NoMatch})

\* ([A-Z][a-zA-Z\s]{lo,hi}?) starting at position st, followed by
\* LinkThenText: <<>> or <<g1, g2>>
LazySubject(s, ls, st, firsts, lo, hi, links, tlo, thi) ==
    LET Groups(m) == <<SubSeq(s, st, st + m[1] - 1)>> \o m[2]
        \* ms holds <<L, <<g2>>>> for every length L of g1 that matches
        Shortest(ms) ==
            IF ms = {} THEN NoMatch
            ELSE Groups(CHOOSE m \in ms : \A o \in ms : m[1] <= o[1])
    IN IF st > Len(s) \/ Ch(s, st) \notin firsts THEN NoMatch
       ELSE Shortest({m \in {<<L, LinkThenText(s, ls, st + L, links, tlo, thi)>> :
                                L \in (1 + lo)..Min(1 + hi,
                                                    RunEnd(s, st + 1, LetterOrSpace) - st)} :
                        m[2] # NoMatch})

ActionVerbs1 == {"uses", "does", "performs", "facilitates", "manages", "involves"}
Articles == {"is", "are", "was", "were", "the", "a", "an"}

\* Strategy 1: "What is X?" from a sentence starting "X is Y"
Strategy1(s) ==
    LET Ask(subject, definition) ==
            IF HasWord(lower(subject), ActionVerbs1) THEN Miss
            ELSE Hit("What is " \o DropLastWord(subject, Articles) \o "?",
                     IF Len(definition) > 100 THEN Shorten(definition, 100)
                     ELSE definition)
        Matched(m) == IF m = NoMatch THEN Miss ELSE Ask(strip(m[1]), strip(m[2]))
    IN Matched(LazySubject(s, lower(s), 1, Letters, 3, 40, {<<"is">>}, 10, 100))

AgentLinks ==
    {" is done by ", " is performed by ", " is led by ", " is facilitated by ",
     " is responsible for ", " are done by ", " are performed by ", " are led by ",
     " are facilitated by ", " are responsible for "}

\* ' (?:is|are) (?:done by|...) ([A-Z][a-zA-Z\s]{3,50})' at position p: <<>> or <<g2>>
AgentTail(s, ls, p) ==
    LET \* the group starts at r, where one letter and n letters or spaces are
        Actor(r, n) ==
            IF r > Len(s) \/ Ch(s, r) \notin Letters \/ n < 3 THEN NoMatch
            ELSE <<SubSeq(s, r, r + Min(50, n))>>
        From(r) == Actor(r, RunEnd(s, r + 1, LetterOrSpace) - (r + 1))
        Linked(ok) == IF ok = {} THEN NoMatch ELSE From(p + Len(CHOOSE k \in ok : TRUE))
    IN Linked({k \in AgentLinks : LitAt(ls, p, k)})

\* Strategy 2: "Who ...?" from "X is performed by Y".  tails holds <<p, <<g2>>>>
\* for every position p the tail of the pattern matches at.
Strategy2(s) ==
    LET Ends(tails, st) ==
            {t \in tails : /\ t[1] - st >= 6
                           /\ t[1] - st <= 41
                           /\ \A i \in (st + 1)..(t[1] - 1) : Ch(s, i) \in LetterOrSpace}
        Greedy(ends) == CHOOSE t \in ends : \A o \in ends : t[1] >= o[1]
        Ask(action, actor) == Hit("Who " \o lower(action) \o "?", Prefix(actor, 30))
        Matched(st0, t) ==
            Ask(strip(SubSeq(s, st0, t[1] - 1)), split(strip(t[2][1]))[1])
        Leftmost(tails, starts) ==
            IF starts = {} THEN Miss
            ELSE Matched(First(starts), Greedy(Ends(tails, First(starts))))
        Searched(tails) ==
            Leftmost(tails, {st \in 1..Len(s) :
                                Ch(s, st) \in Letters /\ Ends(tails, st) # {}})
        Tails(ls) == {t \in {<<p, AgentTail(s, ls, p)>> : p \in 1..Len(s)} :
                        t[2] # NoMatch}
    IN Searched(Tails(lower(s)))

QuantityVerbs == {" is ", " are ", " lasts ", " takes "}
Adverbs == {"typically", "usually", "generally", "about", "approximately"}
TimeUnits == {"week", "weeks", "day", "days", "hour", "hours"}

\* \s*(\d+)\s+(\w+) at position q: <<>> or <<number, unit>>
NumberUnit(s, q) ==
    LET \* the digits are s[d..e-1], the word is s[u..v-1]
        Unit(d, e, u, v) ==
            IF e > d /\ u > e /\ v > u
            THEN <<SubSeq(s, d, e - 1), SubSeq(s, u, v - 1)>>
            ELSE NoMatch
        Word(d, e, u) == Unit(d, e, u, RunEnd(s, u, WordSet))
        Gap(d, e) == Word(d, e, RunEnd(s, e, SpaceSet))
        Number(d) == Gap(d, RunEnd(s, d, DigitSet))
    IN Number(RunEnd(s, q, SpaceSet))

\* ' (?:is|are|lasts|takes) (?:typically|...)?\s*(\d+)\s+(\w+)' at position p
QuantityTail(s, ls, p) ==
    LET Or(with, without) == IF with # NoMatch THEN with ELSE without
        \* the number after the adverb at q, if an adverb is there
        Adverb(q, as) ==
            IF as = {} THEN NoMatch
            ELSE NumberUnit(s, q + Len(CHOOSE k \in as : TRUE))
        Verb(q) == Or(Adverb(q, {k \in Adverbs : LitAt(ls, q, k)}), NumberUnit(s, q))
        Verbs(vs) == IF vs = {} THEN NoMatch ELSE Verb(p + Len(CHOOSE k \in vs : TRUE))
    IN Verbs({k \in QuantityVerbs : LitAt(ls, p, k)})

\* Strategy 3: "How long / How many" from "X lasts 2 weeks".  tails holds
\* <<p, <<number, unit>>>> for every position p the tail of the pattern
\* matches at.
Strategy3(s) ==
    LET Ends(tails, st) ==
            {t \in tails : /\ t[1] - st >= 6
                           /\ \A i \in (st + 1)..(t[1] - 1) : Ch(s, i) # "."}
        Greedy(ends) == CHOOSE t \in ends : \A o \in ends : t[1] >= o[1]
        Ask(subject, m) ==
            Hit(IF m[2] \in TimeUnits
                THEN "How long is " \o lower(subject) \o "?"
                ELSE "How many " \o m[2] \o " is " \o lower(subject) \o "?",
                m[1] \o " " \o m[2])
        Matched(st0, t) == Ask(strip(SubSeq(s, st0, t[1] - 1)), t[2])
        Leftmost(tails, starts) ==
            IF starts = {} THEN Miss
            ELSE Matched(First(starts), Greedy(Ends(tails, First(starts))))
        Searched(tails) ==
            Leftmost(tails, {st \in 1..Len(s) :
                                Ch(s, st) \in Letters /\ Ends(tails, st) # {}})
        Tails(ls) == {t \in {<<p, QuantityTail(s, ls, p)>> : p \in 1..Len(s)} :
                        t[2] # NoMatch}
    IN Searched(Tails(lower(s)))

(***************************************************************************)
(* NLTK, as the strategies see it.  tagger = "raises": word_tokenize or     *)
(* pos_tag raises (the data is missing).  tagger = "lexicon": the sentence  *)
(* is tokenized at whitespace with , ; : ! ? split off, and each token is   *)
(* tagged from a small lexicon.                                             *)
(***************************************************************************)
Taggers == {"lexicon", "raises"}

SplitOff == {",", ";", ":", "!", "?"}

RECURSIVE SpaceOut(_)
SpaceOut(s) ==
    IF Len(s) <= 1 THEN (IF s \in SplitOff THEN " " \o s \o " " ELSE s)
    ELSE SpaceOut(SubSeq(s, 1, Len(s) \div 2)) \o SpaceOut(SubSeq(s, Len(s) \div 2 + 1, Len(s)))

word_tokenize(s) == split(SpaceOut(s))

VerbWords ==
    {"is", "are", "lasts", "takes", "uses", "does", "manages", "includes", "has",
     "performs", "facilitates", "handles", "executes", "contains", "consists",
     "performed", "used", "designed", "supports", "led", "done"}
FunctionWords ==
    {"a", "an", "the", "by", "for", "of", "in", "and", "to", "typically", "usually",
     "what", "it", "on", "with", "about"}
AdjectiveWords ==
    {"iterative", "incremental", "linear", "agile", "long", "short", "daily"}

pos_tag_word(w) ==
    IF w \in SplitOff THEN w
    ELSE IF \A i \in 1..Len(w) : Ch(w, i) \in DigitSet THEN "CD"
    ELSE IF lower(w) \in VerbWords THEN "VBZ"
    ELSE IF lower(w) \in FunctionWords THEN "IN"
    ELSE IF lower(w) \in AdjectiveWords THEN "JJ"
    ELSE IF Ch(w, 1) \in UpperSet THEN "NNP"
    ELSE "NN"

pos_tag(words) == [i \in 1..Len(words) |-> pos_tag_word(words[i])]

StartsWith(s, pre) == LitAt(s, 1, pre)

\* str.replace(old, "_____", 1)
ReplaceFirst(s, old, new) ==
    LET at == {p \in 1..(Len(s) - Len(old) + 1) : LitAt(s, p, old)}
    IN IF at = {} \/ old = "" THEN s
       ELSE SubSeq(s, 1, First(at) - 1) \o new \o Suffix(s, First(at) + Len(old) - 1)

\* Strategy 4: fill in the blank left by a noun phrase
Strategy4(s, tagger_) ==
    LET Nounish(tags, i) == StartsWith(tags[i], "NN") \/ StartsWith(tags[i], "JJ")
        \* the maximal runs i..j of noun and adjective tokens, 2 to 4 tokens long
        Runs(n, tags) ==
            {r \in (1..n) \X (1..n) :
                /\ r[2] - r[1] + 1 >= 2
                /\ r[2] - r[1] + 1 <= 4
                /\ \A i \in r[1]..r[2] : Nounish(tags, i)
                /\ r[1] = 1 \/ ~Nounish(tags, r[1] - 1)
                /\ r[2] = n \/ ~Nounish(tags, r[2] + 1)}
        Term(words, r) == join(" ", SubSeq(words, r[1], r[2]))
        \* important_terms.sort(key=len) is stable: r comes before o
        Shorter(a, r, b, o) == Len(a) < Len(b) \/ (Len(a) = Len(b) /\ r[1] <= o[1])
        Before(words, r, o) == Shorter(Term(words, r), r, Term(words, o), o)
        Pick(words, runs, medium) ==
            IF medium # {} THEN CHOOSE r \in medium : \A o \in medium : Before(words, r, o)
            ELSE CHOOSE r \in runs : \A o \in runs : Before(words, o, r)
        Cut(blanked, qwords) ==
            IF Len(blanked) > 150 /\ Len(qwords) > 20
            THEN join(" ", SubSeq(qwords, 1, 20)) \o "..."
            ELSE blanked
        Ask(answer_term, blanked) == Hit(Cut(blanked, split(blanked)), answer_term)
        Blank(answer_term) ==
            IF ~(5 < Len(answer_term) /\ Len(answer_term) < 50) THEN Miss
            ELSE Ask(answer_term, ReplaceFirst(s, answer_term, "_____"))
        Found(words, runs) ==
            IF runs = {} THEN Miss
            ELSE Blank(Term(words, Pick(words, runs,
                                        {r \in runs : r[2] - r[1] + 1 >= 3})))
        Tagged(words, tags) == Found(words, Runs(Len(words), tags))
        Tokens(words) ==
            Tagged(words, IF tagger_ = "raises" THEN [i \in 1..Len(words) |-> "NN"]
                          ELSE pos_tag(words))
    IN Tokens(IF tagger_ = "raises" THEN split(s) ELSE word_tokenize(s))

\* Strategy 9: "Explain: X" for the first proper noun or long capitalized noun
Strategy9(s, tagger_) ==
    LET Important(words, tags) ==
            {i \in 1..Len(words) :
                \/ StartsWith(tags[i], "NNP")
                \/ /\ StartsWith(tags[i], "NN")
                   /\ Ch(words[i], 1) \in UpperSet
                   /\ Len(words[i]) > 4}
        Explain(words, important) ==
            IF important = {} THEN Miss
            ELSE Hit("Explain: " \o words[First(important)], Prefix(s, 120))
        Tokens(words) == Explain(words, Important(words, pos_tag(words)))
    IN IF Len(s) <= 30 \/ tagger_ = "raises" THEN Miss
       ELSE Tokens(word_tokenize(s))

CapabilityVerbs == {"performs", "facilitates", "manages", "handles", "executes"}
generic_subjects ==
    {"finance", "healthcare", "transportation", "e-commerce", "industry", "field", "domain"}

\* Strategy 5: "What does X do?" from "X manages Y"
Strategy5(s) ==
    LET Ask(subject, action) ==
            IF lower(subject) \in generic_subjects THEN Miss
            ELSE Hit("What does " \o DropLastWord(subject, CapabilityVerbs) \o " do?",
                     IF Len(action) > 80 THEN Shorten(action, 80) ELSE action)
        Matched(m) == IF m = NoMatch THEN Miss ELSE Ask(strip(m[1]), strip(m[2]))
    IN Matched(LazySubject(s, lower(s), 1, Letters, 3, 30,
                           {<<v>> : v \in CapabilityVerbs}, 10, 80))

CompositionLinks == {<<"includes">>, <<"consists of">>, <<"has">>, <<"contains">>}
CompositionWords == {"includes", "consists", "has", "contains", "are", "is", "of"}
ActionVerbs6 == {"uses", "does", "performs", "enables"}

\* Strategy 6: "What are the components or types of X?" from "X includes Y"
Strategy6(s) ==
    LET Ask(subject, items) ==
            IF Len(subject) > 40 \/ HasWord(lower(subject), ActionVerbs6) THEN Miss
            ELSE Hit("What are the components or types of " \o subject \o "?",
                     IF Len(items) > 80 THEN Shorten(items, 80) ELSE items)
        Matched(m) ==
            IF m = NoMatch THEN Miss
            ELSE Ask(DropLastWord(strip(m[1]), CompositionWords), strip(m[2]))
    IN Matched(LazySubject(s, lower(s), 1, Letters, 3, 30, CompositionLinks, 10, 100))

PurposeLinks ==
    {<<be, what>> : be \in {"is", "are"},
                    what \in {"used for", "designed to", "aims to", "purpose is", "role is"}}
PurposeWords == {"is", "are", "used", "designed", "aims", "purpose", "role"}

\* Strategy 7: "What is the purpose of X?" from "X is used for Y"
Strategy7(s) ==
    LET Ask(subject, purpose) ==
            Hit("What is the purpose of " \o subject \o "?",
                IF Len(purpose) > 80 THEN Shorten(purpose, 80) ELSE purpose)
        Matched(m) ==
            IF m = NoMatch THEN Miss
            ELSE Ask(DropLastWord(strip(m[1]), PurposeWords), strip(m[2]))
    IN Matched(LazySubject(s, lower(s), 1, Letters, 5, 40, PurposeLinks, 10, 80))

ActionVerbs8 ==
    {"uses", "does", "performs", "facilitates", "manages", "involves", "enables", "allows"}

\* Strategy 8: "What is X?" from "X is Y" anywhere in the sentence, case-sensitive
Strategy8(s) ==
    LET Ask(found, subject, definition) ==
            IF HasWord(lower(found), ActionVerbs8) THEN Miss
            ELSE IF Len(subject) < 50 /\ Len(definition) > 10
            THEN Hit("What is " \o subject \o "?",
                     IF Len(definition) > 100 THEN Shorten(definition, 100)
                     ELSE definition)
            ELSE Miss
        Matched(found, definition) ==
            Ask(found, DropLastWord(found, Articles), definition)
        \* <<st, groups>> for every start st the pattern matches at
        Leftmost(ms) == (CHOOSE m \in ms : \A o \in ms : m[1] <= o[1])[2]
        Searched(ms) ==
            IF ms = {} THEN Miss
            ELSE Matched(strip(Leftmost(ms)[1]), strip(Leftmost(ms)[2]))
    IN Searched({m \in {<<st, LazySubject(s, s, st, UpperSet, 3, 35, {<<"is">>},
                                           15, 100)>> : st \in 1..Len(s)} :
                    m[2] # NoMatch})

AnswerLimit == 100
QuestionLimit == 200
MinSentenceLen == 20

\* the guards `if not question` left out: a later strategy overwrites
CascadeLastWins(s, tagger_) ==
    LET Or(earlier, i, outcome) == IF outcome.hit THEN <<i, outcome>> ELSE earlier
    IN Or(Or(Or(Or(Or(Or(Or(Or(Or(<<0, Miss>>,
          1, Strategy1(s)), 2, Strategy2(s)), 3, Strategy3(s)),
          4, Strategy4(s, tagger_)), 5, Strategy5(s)), 6, Strategy6(s)),
          7, Strategy7(s)), 8, Strategy8(s)), 9, Strategy9(s, tagger_))

\* the strategies in the order of the source; <<strategy number, outcome>> of
\* the first one that assigns a question, <<0, Miss>> if none does
Cascade(s, tagger_) ==
    LET \* `if not question:` before a strategy
        Or(earlier, i, outcome) ==
            IF earlier[1] # 0 THEN earlier
            ELSE IF outcome.hit THEN <<i, outcome>>
            ELSE <<0, Miss>>
    IN Or(Or(Or(Or(Or(Or(Or(Or(Or(<<0, Miss>>,
          1, Strategy1(s)), 2, Strategy2(s)), 3, Strategy3(s)),
          4, Strategy4(s, tagger_)), 5, Strategy5(s)), 6, Strategy6(s)),
          7, Strategy7(s)), 8, Strategy8(s)), 9, Strategy9(s, tagger_))

\* lines 476-483: the answer cleaned up and limited
CleanAnswer(answer) ==
    LET a == join(" ", split(rstripChars(strip(answer), {".", "!", "?"})))
    IN IF answer = "" THEN answer
       ELSE IF Len(a) > AnswerLimit THEN Shorten(a, AnswerLimit) ELSE a

\* lines 485-492: the question cleaned up and limited
CleanQuestion(question) ==
    LET q == join(" ", split(strip(question)))
    IN IF Len(q) > QuestionLimit THEN Shorten(q, QuestionLimit) ELSE q

\* the final validation with >= for >
AcceptableFrom(question, answer) ==
    question # "" /\ answer # "" /\ Len(question) >= 10 /\ Len(answer) >= 5

\* line 495: the final validation
Acceptable(question, answer) ==
    question # "" /\ answer # "" /\ Len(question) > 10 /\ Len(answer) > 5

None == [none |-> TRUE, question |-> "", answer |-> "", context |-> "", strategy |-> 0]

\* the strategies after the first one given their turn when its question or
\* answer fails the final validation
_generate_question_from_sentence_retrying(sentence_, tagger_) ==
    LET s == rstripChars(strip(sentence_), {".", "!", "?"})
        outcomes == << Strategy1(s), Strategy2(s), Strategy3(s), Strategy4(s, tagger_),
                       Strategy5(s), Strategy6(s), Strategy7(s), Strategy8(s),
                       Strategy9(s, tagger_) >>
        producing == {i \in 1..9 : outcomes[i].hit}
        good == {i \in producing : Acceptable(CleanQuestion(outcomes[i].question),
                                               CleanAnswer(outcomes[i].answer))}
        Record(i) == [none |-> FALSE, question |-> CleanQuestion(outcomes[i].question),
                      answer |-> CleanAnswer(outcomes[i].answer),
                      context |-> Prefix(strip(sentence_), 200), strategy |-> i]
    IN IF Len(strip(sentence_)) < MinSentenceLen \/ producing = {} THEN None
       ELSE IF good = {} THEN [None EXCEPT !.strategy = First(producing)]
       ELSE Record(First(good))

\* the value returned: None, or the record; `strategy` notes which strategy
\* assigned the question (also when the final validation then returned None)
_generate_question_from_sentence(sentence_, tagger_) ==
    LET Validated(original_sentence, strategy, question, answer) ==
            IF Acceptable(question, answer)
            THEN [none |-> FALSE, question |-> question, answer |-> answer,
                  context |-> Prefix(original_sentence, 200), strategy |-> strategy]
            ELSE [None EXCEPT !.strategy = strategy]
        \* c is <<strategy, outcome>>
        Cleaned(original_sentence, c) ==
            IF c[1] = 0 THEN None
            ELSE Validated(original_sentence, c[1], CleanQuestion(c[2].question),
                           CleanAnswer(c[2].answer))
    IN IF Len(strip(sentence_)) < MinSentenceLen THEN None
       ELSE Cleaned(strip(sentence_),
                    Cascade(rstripChars(strip(sentence_), {".", "!", "?"}), tagger_))

NotCalled == [None EXCEPT !.strategy = -1]

SynthIdle ==
    /\ sentence = ""
    /\ tagger = "lexicon"
    /\ q_data = NotCalled

(***************************************************************************)
(* The documents given to QuestionGenerator.  NLTK's sent_tokenize is not  *)
(* part of the repository: a document is the sequence of sentence          *)
(* candidates it is split into.  A short document is a selection, in       *)
(* order, of at most MaxDocument candidates of Library; the long document  *)
(* has LongDocumentLen sentences, all but the last yielding no question.   *)
(***************************************************************************)
MaxDocument == 3
LongDocumentLen == 52

Library ==
    << "Agile is an iterative software development methodology.",
       "Short one.",
       "What it does and agile 12.",
       "Agile is typically 2 weeks of agile delivery.",
       "agile is performed by the Scrum Master.",
       "  The sprint lasts typically 2 weeks. " >>

Filler(k) == "What it does and agile " \o Digits(k) \o "."

LongDocument ==
    [k \in 1..LongDocumentLen |->
        IF k < LongDocumentLen THEN Filler(k + 12) ELSE strip(Library[6])]

\* the candidates of Library at the positions in S, in order
RECURSIVE Selection(_)
Selection(S) ==
    IF S = {} THEN <<>>
    ELSE Selection(S \ {Last(S)}) \o <<Library[Last(S)]>>

\* the three sentences of the Agile, Waterfall and Scrum scenario
ScenarioDocument ==
    << "Agile is an iterative software development methodology.",
       "Waterfall is a linear software development methodology.",
       "Scrum is a framework for Agile." >>

\* a sentence with two blanks between its subject and "is"
SpacedDocument == << "Agile  is an iterative software development methodology." >>

Documents ==
    {Selection(S) : S \in {T \in SUBSET (1..Len(Library)) : Cardinality(T) <= MaxDocument}}
    \cup {LongDocument, ScenarioDocument, SpacedDocument}

Topics == {"agile", "Scrum master sprint"}

\* `if topic:` is false for None and for the empty string alike
NoTopic == ""

(***************************************************************************)
(* question_generator.py: QuestionGenerator.__init__ and the ranking.      *)
(* scikit-learn is not part of the repository: fitting the vectorizer      *)
(* either succeeds or raises, a similarity query either raises or yields   *)
(* one score per sentence, here an integer number of tenths, and argsort   *)
(* leaves equal scores in any order.                                       *)
(***************************************************************************)
MaxScore == 3
RelevanceFloor == 1

_extract_sentences(markdown_content) ==
    LET stripped == [i \in 1..Len(markdown_content) |-> strip(markdown_content[i])]
    IN SelectSeq(stripped, LAMBDA s : Len(s) > 20)

\* TfidfVectorizer(...).fit_transform(self.sentences)
fit_transform(sents) == {"fitted", "raises"}

\* what self.vectorizer is afterwards, or "raises"
_build_tfidf_index(sents) ==
    IF sents = <<>> THEN {"None"} ELSE fit_transform(sents)

\* the arrangements of 1..L a shuffle, a sample or a sort of ties may leave:
\* all of them up to MaxDocument positions, the two monotone ones beyond
RECURSIVE PermsOf(_)
PermsOf(S) ==
    IF S = {} THEN {<<>>}
    ELSE UNION {{<<x>> \o p : p \in PermsOf(S \ {x})} : x \in S}

Arrangements(L) ==
    IF L <= MaxDocument THEN PermsOf(1..L)
    ELSE {[i \in 1..L |-> i], [i \in 1..L |-> L + 1 - i]}

\* random.sample(population, k); random.shuffle is the case k = len
sample(population, k) ==
    {[i \in 1..k |-> population[p[i]]] : p \in Arrangements(Len(population))}

\* cosine_similarity(topic_vector, self.sentence_vectors)[0]
Similarities(L) ==
    IF L <= MaxDocument THEN [1..L -> 1..MaxScore]
    ELSE {[i \in 1..L |-> v] : v \in 1..MaxScore}

\* similarities.argsort()
argsort(scores) ==
    {p \in Arrangements(Len(scores)) :
        \A i \in 1..(Len(scores) - 1) : scores[p[i]] <= scores[p[i + 1]]}

\* order[:n]: the n lowest scores
TopIndicesFirst(order, n_sentences) ==
    [i \in 1..Min(n_sentences, Len(order)) |-> order[i]]

\* order[-n:][::-1]
TopIndices(order, n_sentences) ==
    LET L == Len(order)
        k == IF n_sentences = 0 THEN L ELSE Min(n_sentences, L)
    IN [i \in 1..k |-> order[L + 1 - i]]

VectorRanking(sents, scores, order, n_sentences) ==
    LET top_indices == TopIndices(order, n_sentences)
        kept == SelectSeq(top_indices, LAMBDA i : scores[i] > RelevanceFloor)
    IN [k \in 1..Min(n_sentences, Len(kept)) |-> sents[kept[k]]]

\* a topic word counted as often as the topic repeats it
matchesRepeated(topic, sent) ==
    Cardinality({i \in 1..Len(split(lower(topic))) :
                    IsSubstring(split(lower(topic))[i], lower(sent))})

\* sum(1 for word in topic_words if word in sent_lower)
matches(topic, sent) ==
    Cardinality({w \in Range(split(lower(topic))) : IsSubstring(w, lower(sent))})

_find_relevant_sentences_keyword(sents, topic, n_sentences) ==
    LET m == [i \in 1..Len(sents) |-> matches(topic, sents[i])] @@ <<>>
        relevant == {i \in 1..Len(sents) : m[i] > 0}
        \* relevant.sort(key=lambda x: x[1], reverse=True) is stable
        Before(i, j) == m[i] > m[j] \/ (m[i] = m[j] /\ i < j)
        sorted == [k \in 1..Cardinality(relevant) |->
                     CHOOSE i \in relevant :
                        Cardinality({j \in relevant : Before(j, i)}) = k - 1]
    IN [k \in 1..Min(n_sentences, Cardinality(relevant)) |-> sents[sorted[k]]]

\* the keyword matching written out in _find_relevant_sentences for the
\* generator without an index
_find_relevant_sentences_inline(sents, topic, n_sentences) ==
    LET m == [i \in 1..Len(sents) |-> matches(topic, sents[i])] @@ <<>>
        relevant == {i \in 1..Len(sents) : m[i] > 0}
        \* relevant.sort(key=lambda x: x[1], reverse=True) is stable
        Before(i, j) == m[i] > m[j] \/ (m[i] = m[j] /\ i < j)
        sorted == [k \in 1..Cardinality(relevant) |->
                     CHOOSE i \in relevant :
                        Cardinality({j \in relevant : Before(j, i)}) = k - 1]
    IN [k \in 1..Min(n_sentences, Cardinality(relevant)) |-> sents[sorted[k]]]

NoRanking == [path |-> "", similarities |-> <<>>, relevant |-> <<>>]

\* what _find_relevant_sentences may return, with the path it took: "keyword"
\* without an index, "vector", or "fallback" when the query raised
_find_relevant_sentences(sents, vectorizer_, topic, n_sentences) ==
    LET keyword == _find_relevant_sentences_keyword(sents, topic, n_sentences)
    IN IF vectorizer_ = "None"
       THEN {[path |-> "keyword", similarities |-> <<>>,
              relevant |-> _find_relevant_sentences_inline(sents, topic, n_sentences)]}
       ELSE {[path |-> "fallback", similarities |-> <<>>, relevant |-> keyword]}
            \cup UNION {{[path |-> "vector", similarities |-> sc,
                          relevant |-> VectorRanking(sents, sc, order, n_sentences)]
                            : order \in argsort(sc)}
                        : sc \in Similarities(Len(sents))}

(***************************************************************************)
(* question_generator.py: answer_question.  The question is lowercased, so *)
(* with re.IGNORECASE the alternatives of the key term come to the key     *)
(* phrase as typed and the key phrase with single spaces between its       *)
(* words.  Questions are made of letters, digits and spaces: the           *)
(* capitalized phrase enters the pattern unescaped.                        *)
(***************************************************************************)
QuestionWords ==
    {"what", "who", "where", "when", "why", "how", "is", "are", "does", "do",
     "can", "will"}

\* re.sub(r'^(w1|w2|...)\s+', '', text): one leading word and the whitespace
\* after it
DropFirstWord(text, words) ==
    LET Cut(w) == Suffix(text, RunEnd(text, Len(w) + 1, SpaceSet) - 1)
        Leading(hits) == IF hits = {} THEN text ELSE Cut(CHOOSE w \in hits : TRUE)
    IN Leading({w \in words : /\ StartsWith(text, w)
                              /\ Len(text) > Len(w)
                              /\ Ch(text, Len(w) + 1) \in SpaceSet})

\* question_clean
KeyPhrase(question) ==
    strip(DropLastWord(DropFirstWord(strip(lower(question)), QuestionWords),
                       QuestionWords))

\* the alternatives of the key term, in the order the pattern lists them
KeyTerms(key_term) == <<key_term, join(" ", split(key_term))>>

\* ,\s*also known as\s+[^,]+\s*,  with its first comma at position a of ls:
\* the position after its last comma, 0 if it does not match
AlsoKnownAs(ls, a) ==
    LET Name(x, c) ==
            IF x <= Len(ls) /\ Ch(ls, x) \in SpaceSet /\ c >= x + 2 /\ c <= Len(ls)
            THEN c + 1 ELSE 0
        Phrase(b) ==
            IF LitAt(ls, b, "also known as")
            THEN Name(b + 13, RunEndNot(ls, b + 14, {","}))
            ELSE 0
    IN IF LitAt(ls, a, ",") THEN Phrase(RunEnd(ls, a + 1, SpaceSet)) ELSE 0

\* \s+is\s+([^.]{10,150})  tried at position p
IsThenText(s, ls, p) == LinkThenText(s, ls, p, {<<"is">>}, 10, 150)

\* the rest of pattern 1 after the key term, which ends before position e:
\* \s+(?:,\s*also known as\s+[^,]+\s*,)?\s+is\s+([^.]{10,150})
Pattern1(s, ls, e) ==
    LET Aka(c) == IF c = 0 THEN NoMatch ELSE IsThenText(s, ls, c)
        After(a) ==
            IF a = e THEN NoMatch
            ELSE IF LitAt(ls, a, ",") THEN Aka(AlsoKnownAs(ls, a))
            ELSE IsThenText(s, ls, e + 1)
    IN After(RunEnd(ls, e, SpaceSet))

\* pattern 1b: \s*,\s*also known as\s+[^,]+\s*,\s+is\s+([^.]{10,150})
Pattern1b(s, ls, e) ==
    LET Aka(c) == IF c = 0 THEN NoMatch ELSE IsThenText(s, ls, c)
    IN Aka(AlsoKnownAs(ls, RunEnd(ls, e, SpaceSet)))

\* pattern 2: \s+(?:refers to|means|denotes)\s+([^.]{10,150})
Pattern2(s, ls, e) ==
    LinkThenText(s, ls, e, {<<"refers to">>, <<"means">>, <<"denotes">>}, 10, 150)

\* pattern 3: \s*,\s*also known as\s+([^,]+)
Pattern3(s, ls, e) ==
    LET Name(x, c) ==
            IF x <= Len(ls) /\ Ch(ls, x) \in SpaceSet /\ c >= x + 2
            THEN <<SubSeq(s, x + 1, c - 1)>> ELSE NoMatch
        Phrase(b) ==
            IF LitAt(ls, b, "also known as")
            THEN Name(b + 13, RunEndNot(ls, b + 14, {","}))
            ELSE NoMatch
        Comma(a) == IF LitAt(ls, a, ",") THEN Phrase(RunEnd(ls, a + 1, SpaceSet))
                    ELSE NoMatch
    IN Comma(RunEnd(ls, e, SpaceSet))

\* the rest of pattern k after a key term ending before position e
PatternRest(k, s, ls, e) ==
    CASE k = 1 -> Pattern1(s, ls, e)
      [] k = 2 -> Pattern1b(s, ls, e)
      [] k = 3 -> Pattern2(s, ls, e)
      [] k = 4 -> Pattern3(s, ls, e)

\* re.search(pattern k, sentence, re.IGNORECASE): <<>> or <<group 2>>, from
\* the leftmost position where an alternative of the key term and the rest
\* of the pattern match, the first such alternative
Search(k, s, key_term) ==
    LET ls == lower(s)
        At(p, t) == IF LitAt(ls, p, t) THEN PatternRest(k, s, ls, p + Len(t)) ELSE NoMatch
        Or(first, second) == IF first # NoMatch THEN first ELSE second
        Try(p) == Or(At(p, KeyTerms(key_term)[1]), At(p, KeyTerms(key_term)[2]))
        Leftmost(ps) == IF ps = {} THEN NoMatch ELSE Try(First(ps))
    IN Leftmost({p \in 1..Len(s) : Try(p) # NoMatch})

\* answer[:150].rsplit(' ', 1)[0] + '...' when the answer is longer
Limited(answer, limit) == IF Len(answer) > limit THEN Shorten(answer, limit) ELSE answer

\* what the loop body returns for one sentence, <<>> when no pattern matches
Extracted(s, key_term) ==
    LET Definition(k, m) == [none |-> FALSE, via |-> k, answer |-> Limited(strip(m[1]), 150)]
        Other(m) == [none |-> FALSE, via |-> 4, answer |-> "Also known as " \o strip(m[1])]
        Or(k, m, otherwise) ==
            IF m = NoMatch THEN otherwise
            ELSE IF k = 4 THEN <<Other(m)>> ELSE <<Definition(k, m)>>
    IN Or(1, Search(1, s, key_term),
          Or(2, Search(2, s, key_term),
             Or(3, Search(3, s, key_term),
                Or(4, Search(4, s, key_term), <<>>))))

\* answer_question returned None
NoAnswer == [none |-> TRUE, via |-> 0, answer |-> ""]

\* answer_question has not been called
NotAnswered == [none |-> TRUE, via |-> -1, answer |-> ""]

\* via is the pattern that gave the answer: 1, 2 (pattern 1b), 3 (pattern 2),
\* 4 (pattern 3), or 5 for the most relevant sentence returned as it is
AnswerFrom(relevant_sentences, key_term) ==
    LET Fallback == [none |-> FALSE, via |-> 5,
                     answer |-> Limited(relevant_sentences[1], 200)]
        FirstOf(found) ==
            IF found = {} THEN Fallback
            ELSE Extracted(relevant_sentences[First(found)], key_term)[1]
    IN IF relevant_sentences = <<>> THEN NoAnswer
       ELSE FirstOf({i \in 1..Len(relevant_sentences) :
                        Extracted(relevant_sentences[i], key_term) # <<>>})

\* the answers the call can return, one for each list of relevant sentences
\* the ranking can give
answer_question(sents, vectorizer_, question) ==
    LET Answers(question_clean) ==
            {AnswerFrom(relevant_sentences, question_clean) :
                relevant_sentences \in
                    {r.relevant : r \in _find_relevant_sentences(sents, vectorizer_,
                                                                 question_clean, 5)}}
    IN IF KeyPhrase(question) = "" THEN {NoAnswer} ELSE Answers(KeyPhrase(question))

(***************************************************************************)
(* question_generator.py: generate_questions                               *)
(***************************************************************************)
ConsecutiveFailureLimit == 50

Count(s, c) == Cardinality({i \in 1..Len(s) : Ch(s, i) = c})

_is_valid_sentence_for_question(sentence_, tagger_) ==
    IF Len(strip(sentence_)) < 20 THEN FALSE
    ELSE IF Ch(sentence_, 1) \notin UpperSet THEN FALSE
    ELSE IF Count(sentence_, ",") > 8 THEN FALSE
    ELSE IF tagger_ = "raises" THEN Len(split(sentence_)) >= 5
    ELSE LET words == word_tokenize(sentence_)
             tagged == pos_tag(words)
             has_verb == \E i \in 1..Len(words) : StartsWith(tagged[i], "VB")
         IN IF Len(words) < 5 THEN FALSE
            ELSE ~(~has_verb /\ Len(words) < 10)

\* the relaxed filter of passes 1 and 2
Lenient(s) == Len(strip(s)) > 20 /\ Ch(s, 1) \in UpperSet

\* the sentences a generator of the model can hold, and what the functions
\* of one sentence yield for each of them
CorpusSentences ==
    UNION {Range(_extract_sentences(d)) : d \in Documents}

Synthesized ==
    [t \in Taggers |->
        [s \in CorpusSentences |-> _generate_question_from_sentence(s, t)]]

QuestionKey ==
    [t \in Taggers |-> [s \in CorpusSentences |-> lower(Synthesized[t][s].question)]]

Valid ==
    [t \in Taggers |->
        [s \in CorpusSentences |-> _is_valid_sentence_for_question(s, t)]]

Passing == [s \in CorpusSentences |-> Lenient(s)]

\* q_key not in seen_questions, never consulted
IsNewAlways(seen_questions, q_key) == TRUE

\* q_key not in seen_questions
IsNew(seen_questions, q_key) == q_key \notin seen_questions

NoneYet ==
    [questions |-> <<>>, seen_questions |-> {}, consecutive_failures |-> 0,
     attempts |-> <<>>]

\* one pass of a loop body: synthesize, then keep the record unless its
\* lowercased question was seen; only pass 1 counts consecutive failures
Attempt(st, pass, s, tagger_) ==
    LET Outcome(q, q_key) ==
            IF q.none THEN "none"
            ELSE IF IsNew(st.seen_questions, q_key) THEN "record"
            ELSE "duplicate"
        After(q, q_key, outcome) ==
            [questions |->
                IF outcome = "record"
                THEN Append(st.questions, [question |-> q.question, answer |-> q.answer,
                                           context |-> q.context])
                ELSE st.questions,
             seen_questions |->
                IF outcome = "record" THEN st.seen_questions \cup {q_key}
                ELSE st.seen_questions,
             consecutive_failures |->
                IF pass # 1 THEN st.consecutive_failures
                ELSE IF outcome = "record" THEN 0
                ELSE st.consecutive_failures + 1,
             attempts |-> Append(st.attempts, [pass |-> pass, sentence |-> s,
                                               outcome |-> outcome])]
        Synthesis(q, q_key) == After(q, q_key, Outcome(q, q_key))
    IN Synthesis(Synthesized[tagger_][s], QuestionKey[tagger_][s])

\* the loop of pass 1 from the i-th valid sentence on
RECURSIVE Pass1(_, _, _, _, _)
Pass1(st, valid_sentences, i, num_questions, tagger_) ==
    IF \/ i > Len(valid_sentences)
       \/ Len(st.questions) >= num_questions
       \/ st.consecutive_failures > ConsecutiveFailureLimit
    THEN st
    ELSE Pass1(Attempt(st, 1, valid_sentences[i], tagger_), valid_sentences, i + 1,
               num_questions, tagger_)

\* the loops of passes 2 and 3 from the i-th sentence on; pass 3 skips tried
RECURSIVE Sweep(_, _, _, _, _, _, _)
Sweep(st, pass, todo, i, tried_sentences, num_questions, tagger_) ==
    IF i > Len(todo) \/ Len(st.questions) >= num_questions THEN st
    ELSE IF todo[i] \in tried_sentences
    THEN Sweep(st, pass, todo, i + 1, tried_sentences, num_questions, tagger_)
    ELSE Sweep(Attempt(st, pass, todo[i], tagger_), pass, todo, i + 1,
               tried_sentences, num_questions, tagger_)

\* the candidate pools pass 1 may start from
Relevants(sents, vectorizer_, topic, num_questions) ==
    LET max_attempts == num_questions * 10
    IN IF topic # NoTopic
       THEN {r.relevant : r \in _find_relevant_sentences(sents, vectorizer_, topic,
                                                         max_attempts)}
       ELSE IF Len(sents) > num_questions
       THEN sample(sents, Min(max_attempts, Len(sents)))
       ELSE {sents}

ValidSentences(relevant_sentences, num_questions, tagger_) ==
    LET strict == SelectSeq(relevant_sentences, LAMBDA s : Valid[tagger_][s])
    IN IF Len(strict) < num_questions * 2
       THEN SelectSeq(relevant_sentences, LAMBDA s : Passing[s])
       ELSE strict

Pass2(st, valid_sentences, sents, num_questions, tagger_) ==
    LET tried_sentences == Range(valid_sentences)
        remaining_sentences == SelectSeq(sents, LAMBDA s : s \notin tried_sentences)
    IN IF Len(st.questions) >= num_questions \/ remaining_sentences = <<>> THEN {st}
       ELSE {Sweep(st, 2, SelectSeq(additional_sentences, LAMBDA s : Passing[s]), 1,
                   {}, num_questions, tagger_)
                : additional_sentences \in
                    sample(remaining_sentences,
                           Min(num_questions * 5, Len(remaining_sentences)))}

Pass3(st, valid_sentences, sents, num_questions, tagger_) ==
    LET tried_sentences == Range(valid_sentences)
        all_remaining == SelectSeq(sents, LAMBDA s : Len(strip(s)) > 15)
    IN IF Len(st.questions) >= num_questions THEN {st}
       ELSE {Sweep(st, 3, shuffled, 1, tried_sentences, num_questions, tagger_)
                : shuffled \in sample(all_remaining, Len(all_remaining))}

\* what generate_questions may return, with the synthesis calls it made: the
\* three passes, from every candidate pool and every order random can give
generate_questions(sents, vectorizer_, tagger_, topic, num_questions) ==
    {[questions |-> Prefix(st.questions, num_questions), attempts |-> st.attempts] :
        st \in UNION {
            UNION {Pass3(second, valid_sentences, sents, num_questions, tagger_) :
                      second \in Pass2(Pass1(NoneYet, valid_sentences, 1,
                                             num_questions, tagger_),
                                       valid_sentences, sents, num_questions, tagger_)} :
            valid_sentences \in
                {ValidSentences(relevant_sentences, num_questions, tagger_) :
                    relevant_sentences \in Relevants(sents, vectorizer_, topic,
                                                     num_questions)}}}

\* no call was made on the generator yet
NoCall == [name |-> "", topic |-> NoTopic, n |-> 0, raised |-> FALSE]

GenIdle ==
    /\ generator = "absent"
    /\ sentences = <<>>
    /\ vectorizer = "None"
    /\ op = NoCall
    /\ ranking = NoRanking
    /\ questions = <<>>
    /\ attempts = <<>>
    /\ answered = NotAnswered

(***************************************************************************)
(* quiz_runner.py: QuizRunner.  What the user types at each prompt is an   *)
(* input; the two emoji of the explanation's result line are left out,     *)
(* TLA+ strings being ASCII.                                               *)
(***************************************************************************)
\* random.sample called without the guard on the size of the corpus: it
\* raises when asked for more sentences than there are
GeneratedUnguarded(sents, vectorizer_, tagger_, topic, num_questions) ==
    IF topic = NoTopic /\ (num_questions < 0 \/ 10 * num_questions > Len(sents))
    THEN {[raised |-> TRUE, questions |-> <<>>]}
    ELSE {[raised |-> FALSE, questions |-> g.questions]
            : g \in generate_questions(sents, vectorizer_, tagger_, topic,
                                       Max(num_questions, 0))}

\* self.question_generator.generate_questions(topic, num_questions), also for
\* a negative num_questions: random.sample then raises ValueError when there
\* is no topic, and with a topic the first pass stops at once
Generated(sents, vectorizer_, tagger_, topic, num_questions) ==
    IF num_questions < 0
    THEN {[raised |-> topic = NoTopic, questions |-> <<>>]}
    ELSE {[raised |-> FALSE, questions |-> g.questions]
            : g \in generate_questions(sents, vectorizer_, tagger_, topic,
                                       num_questions)}

\* what the user types for a question: nothing but blanks, the expected
\* answer, or something else
Typing == {"blank", "expected", "other"}

Typed(q, typing) ==
    CASE typing = "blank" -> "  "
      [] typing = "expected" -> q.answer \o " "
      [] typing = "other" -> "no idea"

\* AnswerEvaluator() keeps the default similarity_threshold of 0.6
DefaultThreshold == <<6, 10>>

\* the entry appended to self.results for question q
Result(q, typed) ==
    LET Entry(user_answer_, is_correct) ==
            [question |-> q.question, user_answer |-> user_answer_,
             correct_answer |-> q.answer, is_correct |-> is_correct,
             context |-> q.context]
    IN Entry(strip(typed),
             IF strip(typed) = "" THEN FALSE
             ELSE evaluate_answer(DefaultThreshold, strip(typed), q.answer).is_correct)

\* the mistake of counting every result as correct
SummaryAllCorrect(results_) ==
    [total |-> Len(results_), correct |-> Len(results_),
     accuracy |-> IF Len(results_) > 0 THEN <<100 * Len(results_), Len(results_)>>
                  ELSE <<0, 1>>,
     results |-> results_]

\* the record run_quiz returns; accuracy is correct / total * 100, kept as
\* the fraction <<100 * correct, total>>
Summary(results_) ==
    LET total == Len(results_)
        correct == Cardinality({i \in 1..total : results_[i].is_correct})
    IN [total |-> total, correct |-> correct,
        accuracy |-> IF total > 0 THEN <<100 * correct, total>> ELSE <<0, 1>>,
        results |-> results_]

NoSummary == [total |-> 0, correct |-> 0, accuracy |-> <<0, 1>>, results |-> <<>>]

\* no run_quiz call has returned yet
NoReturn == [NoSummary EXCEPT !.total = -1]

get_results == results

NotFound == "Question not found. Please run a quiz first."

\* the question number taken as an index from 0
ExplanationFromZero(results_, question_number) ==
    IF results_ = <<>> \/ question_number < 0 \/ question_number >= Len(results_)
    THEN NotFound
    ELSE "\nQuestion: " \o results_[question_number + 1].question \o "\n"
         \o "Correct Answer: " \o results_[question_number + 1].correct_answer \o "\n"
         \o "Your Answer: " \o results_[question_number + 1].user_answer \o "\n"

\* explain_question for self.results = results_
Explanation(results_, question_number) ==
    IF results_ = <<>> \/ question_number < 1 \/ question_number > Len(results_)
    THEN NotFound
    ELSE LET result == results_[question_number]
         IN "\nQuestion: " \o result.question \o "\n"
            \o "Correct Answer: " \o result.correct_answer \o "\n"
            \o (IF result.context # ""
                THEN "Source: " \o Prefix(result.context, 200) \o "...\n"
                ELSE "")
            \o "Your Answer: " \o result.user_answer \o "\n"
            \o "Result: " \o (IF result.is_correct THEN "Correct" ELSE "Incorrect")
            \o "\n"

explain_question(question_number) == Explanation(results, question_number)

\* explain_question was not the last call
NotExplained == [number |-> 0, text |-> ""]

QuizIdle ==
    /\ results = <<>>
    /\ returned = NoReturn
    /\ explained = NotExplained
(***************************************************************************)
(* The sentences given to _generate_question_from_sentence: a subject, a   *)
(* link, an object and an end; subjects and objects are also padded with   *)
(* up to MaxSubjectPad and MaxObjectPad repetitions of a unit, which makes *)
(* the sentences long enough for every length limit to apply.              *)
(***************************************************************************)
MaxSubjectPad == 3
MaxObjectPad == 2

RECURSIVE Repeat(_, _)
Repeat(unit, k) == IF k = 0 THEN "" ELSE unit \o Repeat(unit, k - 1)

SubjectUnit == "cross functional development team and the iterative review of the "
ObjectUnit == "Kanban and Lean and Scrum and Kanban and Lean and Scrum and "

Subjects ==
    {"Agile", "agile", "What Scrum does", "Finance", "Sprint 2", "In 2020, Scrum"}
    \cup {"The " \o Repeat(SubjectUnit, k) \o "sprint" : k \in 0..MaxSubjectPad}

Links ==
    {" is ", " is performed by ", " lasts ", " manages ", " includes ",
     " is used for ", " and "}

Objects ==
    {"an iterative software development methodology", "typically 2 weeks",
     "the Scrum Master", "agile", "v1.5 of the framework"}
    \cup {Repeat(ObjectUnit, k) \o "Agile" : k \in 1..MaxObjectPad}

Ends == {"", "."}

Sentences == {su \o li \o ob \o en : su \in Subjects, li \in Links, ob \in Objects, en \in Ends}

InitSynth ==
    /\ EvalIdle
    /\ GenIdle
    /\ QuizIdle
    /\ sentence \in Sentences
    /\ tagger \in Taggers
    /\ q_data = NotCalled

Synthesize ==
    /\ q_data = NotCalled
    /\ q_data' = _generate_question_from_sentence(sentence, tagger)
    /\ UNCHANGED <<sentence, tagger>>
    /\ UNCHANGED <<evalVars, genVars, quizVars>>

NextSynth == Synthesize

SpecSynth == InitSynth /\ [][NextSynth]_vars

SynthDone == q_data # NotCalled

\* C5: every record _generate_question_from_sentence returns has an answer
\* of at most 100 characters and a question of at most 200 characters, the
\* ellipsis of a truncation included.
C5_Limits ==
    (SynthDone /\ ~q_data.none) =>
        Len(q_data.answer) <= AnswerLimit /\ Len(q_data.question) <= QuestionLimit

\* C6: _generate_question_from_sentence returns None or a record whose
\* question is longer than 10 characters and whose answer is longer than 5.
C6_Floor ==
    SynthDone => \/ q_data.none
                 \/ Len(q_data.question) > 10 /\ Len(q_data.answer) > 5

\* a record is returned whose answer is barely longer than the floor
C6_Witness ==
    /\ SynthDone
    /\ ~q_data.none
    /\ Len(q_data.answer) = 7

\* the sentence as the strategies see it
Stripped == rstripChars(strip(sentence), {".", "!", "?"})

StrategyOutcome(i) ==
    CASE i = 1 -> Strategy1(Stripped)
      [] i = 2 -> Strategy2(Stripped)
      [] i = 3 -> Strategy3(Stripped)
      [] i = 4 -> Strategy4(Stripped, tagger)
      [] i = 5 -> Strategy5(Stripped)
      [] i = 6 -> Strategy6(Stripped)
      [] i = 7 -> Strategy7(Stripped)
      [] i = 8 -> Strategy8(Stripped)
      [] i = 9 -> Strategy9(Stripped, tagger)

Producing == {i \in 1..9 : StrategyOutcome(i).hit}

\* C7: the strategies are tried in the order Definition, Agent, Quantity,
\* Fill-in-blank, Capability, Composition, Purpose, Loose definition,
\* Explain; the question and the answer returned are those (cleaned up) of
\* the lowest-numbered strategy that produces a question for the sentence,
\* and no later strategy replaces them.
C7_FirstWins ==
    (SynthDone /\ Len(strip(sentence)) >= MinSentenceLen) =>
        LET outcomes == << StrategyOutcome(1), StrategyOutcome(2), StrategyOutcome(3),
                           StrategyOutcome(4), StrategyOutcome(5), StrategyOutcome(6),
                           StrategyOutcome(7), StrategyOutcome(8), StrategyOutcome(9) >>
            producing == {i \in 1..9 : outcomes[i].hit}
        IN  IF producing = {} THEN q_data.none /\ q_data.strategy = 0
            ELSE /\ q_data.strategy = First(producing)
                 /\ ~q_data.none =>
                        /\ q_data.question = CleanQuestion(outcomes[First(producing)].question)
                        /\ q_data.answer = CleanAnswer(outcomes[First(producing)].answer)

\* a sentence for which two strategies produce different questions
C7_Witness ==
    /\ SynthDone
    /\ ~q_data.none
    /\ \E i \in Producing : /\ i > q_data.strategy
                             /\ StrategyOutcome(i).question # StrategyOutcome(q_data.strategy).question

(***************************************************************************)
(* The evaluator's inputs: a threshold, a correct answer, and a user       *)
(* answer typed as up to MaxUserPieces pieces.                             *)
(***************************************************************************)
MaxUserPieces == 3

UserPieces == {"quick", "brown", "fox", " ", "!", "Agile", "_"}

RECURSIVE TextsOf(_, _)
TextsOf(pieces, n) ==
    IF n = 0 THEN {""}
    ELSE LET shorter == TextsOf(pieces, n - 1)
         IN shorter \cup {t \o p : t \in shorter, p \in pieces}

UserAnswers == TextsOf(UserPieces, MaxUserPieces)

CorrectAnswers ==
    {"", "!", "fox", "Agile", "quick brown", "Quick brown fox.", "a fox",
     "the quick brown fox", "agile fox _", "quick quick agile"}

Thresholds == {<<6, 10>>, <<1, 1>>}

\* the answer typed and the answer expected in the "iterative development"
\* scenario
ScenarioUserAnswer == "iterative development"
ScenarioCorrectAnswer == "an iterative software development methodology"

\* AnswerEvaluator(similarity_threshold) and the arguments of a call to come;
\* the correct answer may also be the very text the user types
InitEval ==
    /\ SynthIdle
    /\ GenIdle
    /\ QuizIdle
    /\ similarity_threshold \in Thresholds
    /\ \/ /\ user_answer \in UserAnswers
          /\ correct_answer \in CorrectAnswers \cup {user_answer}
       \/ /\ user_answer = ScenarioUserAnswer
          /\ correct_answer = ScenarioCorrectAnswer
    /\ verdict = NoVerdict
    /\ NormIdle

Evaluate ==
    /\ verdict = NoVerdict
    /\ verdict' = evaluate_answer(similarity_threshold, user_answer, correct_answer)
    /\ UNCHANGED <<similarity_threshold, user_answer, correct_answer, given_text, normalized>>
    /\ UNCHANGED <<synthVars, genVars, quizVars>>

NextEval == Evaluate

SpecEval == InitEval /\ [][NextEval]_vars

EvalDone == verdict # NoVerdict

\* the key-phrase condition as claim C1 words it, on the normalized texts
C1_KeyPhrase(u, c) ==
    LET w == split(c)
        long == {i \in 1..Len(w) : Len(w[i]) > 4}
    IN \/ \E i \in 1..(Len(w) - 1) :
            /\ Len(w[i] \o " " \o w[i + 1]) > 5
            /\ IsSubstring(w[i] \o " " \o w[i + 1], u)
       \/ /\ long # {}
          /\ 2 * Cardinality({i \in long : IsSubstring(w[i], u)}) >= Cardinality(long)

C1_Condition ==
    LET u == _normalize_text(user_answer)
        c == _normalize_text(correct_answer)
    IN /\ strip(user_answer) # ""
       /\ \/ u = c
          \/ IsSubstring(c, u)
          \/ IsSubstring(u, c) /\ 10 * Len(u) > 7 * Len(c)
          \/ FracGE(_fuzzy_match(user_answer, correct_answer), similarity_threshold)
          \/ C1_KeyPhrase(u, c)

MaxQuestions == 2
BulkQuestions == 6

Counts == 0..MaxQuestions \cup {BulkQuestions}

InitGen ==
    /\ EvalIdle
    /\ QuizIdle
    /\ GenIdle
    /\ sentence = ""
    /\ tagger \in Taggers
    /\ q_data = NotCalled

\* QuestionGenerator(markdown_content)
Construct ==
    /\ generator = "absent"
    /\ \E document \in Documents :
        \E built \in _build_tfidf_index(_extract_sentences(document)) :
            /\ sentences' = _extract_sentences(document)
            /\ generator' = IF built = "raises" THEN "raised" ELSE "constructed"
            /\ vectorizer' = IF built = "raises" THEN "None" ELSE built
    /\ UNCHANGED <<op, ranking, questions, attempts, answered>>
    /\ UNCHANGED <<evalVars, synthVars, quizVars>>

\* the topics given to _find_relevant_sentences itself: one repeats a word
RankingTopics == Topics \cup {"sprint Sprint agile"}

\* neither call changes the generator: one call is recorded for each
\* generator constructed
FindRelevant ==
    /\ generator = "constructed"
    /\ op.name = ""
    /\ \E topic \in RankingTopics, n \in Counts :
        \E r \in _find_relevant_sentences(sentences, vectorizer, topic, n) :
            /\ op' = [name |-> "_find_relevant_sentences", topic |-> topic, n |-> n,
                      raised |-> FALSE]
            /\ ranking' = r
    /\ questions' = <<>>
    /\ attempts' = <<>>
    /\ UNCHANGED <<generator, sentences, vectorizer, answered>>
    /\ UNCHANGED <<evalVars, synthVars, quizVars>>

Generate ==
    /\ generator = "constructed"
    /\ op.name = ""
    /\ \E topic \in Topics \cup {NoTopic}, n \in Counts :
        \E g \in generate_questions(sentences, vectorizer, tagger, topic, n) :
            /\ op' = [name |-> "generate_questions", topic |-> topic, n |-> n,
                      raised |-> FALSE]
            /\ questions' = g.questions
            /\ attempts' = g.attempts
    /\ ranking' = NoRanking
    /\ UNCHANGED <<generator, sentences, vectorizer, answered>>
    /\ UNCHANGED <<evalVars, synthVars, quizVars>>

\* what the user asks the generator
AskedQuestions == {"what is agile", "Agile", "what"}

\* answer_question(question)
AnswerQuestion ==
    /\ generator = "constructed"
    /\ op.name = ""
    /\ \E question \in AskedQuestions :
        \E answer \in answer_question(sentences, vectorizer, question) :
            /\ op' = [name |-> "answer_question", topic |-> question, n |-> 5,
                      raised |-> FALSE]
            /\ answered' = answer
    /\ ranking' = NoRanking
    /\ questions' = <<>>
    /\ attempts' = <<>>
    /\ UNCHANGED <<generator, sentences, vectorizer>>
    /\ UNCHANGED <<evalVars, synthVars, quizVars>>

NextGen == Construct \/ FindRelevant \/ Generate \/ AnswerQuestion

SpecGen == InitGen /\ [][NextGen]_vars

GenerateDone == op.name = "generate_questions"

Attempted == {attempts[i].sentence : i \in 1..Len(attempts)}

\* C2: generate_questions(topic, n) returns at most n records, and fewer
\* than n only if every sentence of the corpus was passed to synthesis at
\* least once during the call.
C2_FewerOnlyIfExhausted ==
    GenerateDone =>
        /\ Len(questions) <= op.n
        /\ Len(questions) < op.n => Range(sentences) \subseteq Attempted

\* C3: no two records of a list generate_questions returns have the same
\* lowercased question, whichever passes they come from.
C3_NoDuplicates ==
    GenerateDone =>
        \A i, j \in 1..Len(questions) :
            i < j => lower(questions[i].question) # lower(questions[j].question)

\* a later pass synthesized a question that differs only in case from one
\* an earlier pass recorded, and dropped it
C3_Witness ==
    /\ GenerateDone
    /\ \E i, j \in 1..Len(attempts) :
        /\ attempts[i].pass < attempts[j].pass
        /\ attempts[i].outcome = "record"
        /\ attempts[j].outcome = "duplicate"
        /\ QuestionKey[tagger][attempts[i].sentence]
              = QuestionKey[tagger][attempts[j].sentence]
        /\ Synthesized[tagger][attempts[i].sentence].question
              # Synthesized[tagger][attempts[j].sentence].question

\* C4: during one generate_questions call no sentence is passed to
\* synthesis twice, in the same pass or in different ones.
C4_AtMostOnce ==
    GenerateDone =>
        \A i, j \in 1..Len(attempts) :
            i < j => attempts[i].sentence # attempts[j].sentence

\* C8: a failure of the vector index never reaches the caller: the
\* generator is constructed even when building the index raises, and a
\* query that raises yields the keyword ranking.
C8_NeverSurfaced ==
    /\ generator # "raised"
    /\ ranking.path = "fallback" =>
          ranking.relevant
            = _find_relevant_sentences_keyword(sentences, op.topic, op.n)

\* position in self.sentences of the k-th sentence returned
RankedIndex(k) == CHOOSE i \in 1..Len(sentences) : sentences[i] = ranking.relevant[k]

\* C9: on the vector path, for n >= 1, the sentences returned are those of
\* the n highest-scoring sentences whose similarity is above 0.1: at most
\* n, none at or below 0.1, in non-increasing order of similarity, and no
\* sentence left out for want of room scores above a returned one.
C9_TopScoring ==
    (op.name = "_find_relevant_sentences" /\ ranking.path = "vector" /\ op.n >= 1) =>
        LET sc == ranking.similarities
            returned_ == {RankedIndex(k) : k \in 1..Len(ranking.relevant)}
            above == {i \in 1..Len(sentences) : sc[i] > RelevanceFloor}
        IN /\ Len(ranking.relevant) <= op.n
           /\ Cardinality(returned_) = Len(ranking.relevant)
           /\ returned_ \subseteq above
           /\ Cardinality(returned_) = Min(op.n, Cardinality(above))
           /\ \A i \in returned_, j \in above \ returned_ : sc[i] >= sc[j]
           /\ \A k \in 1..(Len(ranking.relevant) - 1) :
                  sc[RankedIndex(k)] >= sc[RankedIndex(k + 1)]

\* two sentences are returned in strictly decreasing order while a third,
\* scoring above 0.1 too, is left out for want of room
C9_Witness ==
    /\ op.name = "_find_relevant_sentences"
    /\ ranking.path = "vector"
    /\ op.n = 2
    /\ Len(ranking.relevant) = 2
    /\ ranking.similarities[RankedIndex(1)] > ranking.similarities[RankedIndex(2)]
    /\ \E i \in 1..Len(sentences) :
        /\ ranking.similarities[i] > RelevanceFloor
        /\ sentences[i] \notin Range(ranking.relevant)

(***************************************************************************)
(* The quiz runner, on a generator constructed from the first sentences of *)
(* QuizShelf, MaxQuizDocument of them at most.                             *)
(***************************************************************************)
MaxQuizDocument == 3

QuizShelf ==
    << Library[1], Library[6], Library[3], Library[5], Library[4] >>

QuizDocuments ==
    {SubSeq(QuizShelf, 1, k) : k \in 0..Min(MaxQuizDocument, Len(QuizShelf))}

QuizCounts == -1..MaxQuestions

\* what generate_questions can return to run_quiz, for each generator and
\* call of the model
QuizCorpora == {_extract_sentences(document) : document \in QuizDocuments}

QuizGenerated ==
    [sents \in QuizCorpora,
     vectorizer_ \in {"None", "fitted"}, tagger_ \in Taggers,
     topic \in Topics \cup {NoTopic}, num_questions \in QuizCounts |->
        Generated(sents, vectorizer_, tagger_, topic, num_questions)]

\* the questions run_quiz can ask, and the entry it stores for each of them
\* and each way of answering
QuizQuestions ==
    UNION {Range(generated.questions) :
              generated \in UNION {QuizGenerated[call] : call \in DOMAIN QuizGenerated}}

QuizResult ==
    [q \in QuizQuestions, typing \in Typing |-> Result(q, Typed(q, typing))]

InitQuiz ==
    /\ EvalIdle
    /\ QuizIdle
    /\ sentence = ""
    /\ tagger \in Taggers
    /\ q_data = NotCalled
    /\ generator = "constructed"
    /\ \E document \in QuizDocuments :
        /\ sentences = _extract_sentences(document)
        /\ vectorizer = IF _extract_sentences(document) = <<>> THEN "None" ELSE "fitted"
    /\ op = NoCall
    /\ ranking = NoRanking
    /\ questions = <<>>
    /\ attempts = <<>>
    /\ answered = NotAnswered

\* run_quiz(topic, num_questions) on a runner made with a generator over one
\* of QuizCorpora; op and questions keep the call made on the generator,
\* whether it raised, and the questions it returned
RunQuiz ==
    /\ generator = "constructed"
    /\ sentences \in QuizCorpora
    /\ \E topic \in Topics \cup {NoTopic}, n \in QuizCounts :
        \E generated \in QuizGenerated[sentences, vectorizer, tagger, topic, n] :
            /\ op' = [name |-> "run_quiz", topic |-> topic, n |-> n,
                      raised |-> generated.raised]
            /\ questions' = generated.questions
            /\ IF generated.raised \/ generated.questions = <<>>
               THEN /\ returned' = NoSummary
                    /\ UNCHANGED results
               ELSE \E typing \in [1..Len(generated.questions) -> Typing] :
                    /\ results' = [i \in 1..Len(generated.questions) |->
                                       QuizResult[generated.questions[i], typing[i]]]
                    /\ returned' = Summary(results')
    /\ explained' = NotExplained
    /\ UNCHANGED <<generator, sentences, vectorizer, ranking, attempts, answered>>
    /\ UNCHANGED <<evalVars, synthVars>>

\* the question numbers explain_question is called with
ExplainNumbers == -1..(MaxQuestions + 1)

\* explain_question(question_number)
Explain ==
    /\ generator = "constructed"
    /\ \E question_number \in ExplainNumbers :
        explained' = [number |-> question_number,
                      text |-> explain_question(question_number)]
    /\ UNCHANGED <<results, returned>>
    /\ UNCHANGED <<evalVars, synthVars, genVars>>

NextQuiz == RunQuiz \/ Explain

SpecQuiz == InitQuiz /\ [][NextQuiz]_vars

\* C10: after any sequence of run_quiz calls, get_results() and
\* explain_question reflect the most recent call: the stored results are
\* the 'results' of the record that call returned, also when it generated
\* no questions or generation raised.
C10_LatestRun ==
    returned # NoReturn =>
        /\ get_results = returned.results
        /\ \A k \in 0..(Len(results) + 1) :
              explain_question(k) = Explanation(returned.results, k)

\* the record the last run_quiz returned, against the questions it asked and
\* an upper limit on their number
C11_Record(limit) ==
    returned # NoReturn =>
        /\ Len(returned.results) = Len(questions)
        /\ \A i \in 1..Len(questions) :
              /\ returned.results[i].question = questions[i].question
              /\ returned.results[i].correct_answer = questions[i].answer
              /\ returned.results[i].context = questions[i].context
        /\ returned.total = Len(returned.results)
        /\ returned.total <= limit
        /\ returned.correct =
              Cardinality({i \in 1..Len(returned.results) : returned.results[i].is_correct})
        /\ 0 <= returned.correct /\ returned.correct <= returned.total
        /\ returned.accuracy = IF returned.total > 0
                               THEN <<100 * returned.correct, returned.total>>
                               ELSE <<0, 1>>
        /\ FracGE(returned.accuracy, <<0, 1>>)
        /\ FracGE(<<100, 1>>, returned.accuracy)

C12_Describes(text, r) ==
    /\ text # NotFound
    /\ IsSubstring("Question: " \o r.question \o "\n", text)
    /\ IsSubstring("Correct Answer: " \o r.correct_answer \o "\n", text)
    /\ IsSubstring("Your Answer: " \o r.user_answer \o "\n", text)
    /\ IsSubstring("Result: " \o (IF r.is_correct THEN "Correct" ELSE "Incorrect") \o "\n",
                   text)

\* C12: explain_question(k) leaves the stored results as they are; it returns
\* the 'Question not found' message whenever no results are stored or k < 1
\* or k > the number of stored results, and for 1 <= k <= that number it
\* describes the k-th stored record, counting from 1 in asking order.
C12_Explained ==
    [][explained' # NotExplained =>
          /\ results' = results
          /\ IF results = <<>> \/ explained'.number < 1
                \/ explained'.number > Len(results)
             THEN explained'.text = NotFound
             ELSE C12_Describes(explained'.text, results[explained'.number])]_vars

\* the second of two stored results, which differ, was explained
C12_Witness ==
    /\ Len(results) = 2
    /\ results[1] # results[2]
    /\ explained.number = 2
    /\ explained.text # NotFound

(***************************************************************************)
(* The evaluator called directly, and the quiz runner beside it.           *)
(***************************************************************************)
InitEvalQuiz == InitEval \/ InitQuiz

NextEvalQuiz == Evaluate \/ RunQuiz

SpecEvalQuiz == InitEvalQuiz /\ [][NextEvalQuiz]_vars

\* C13: for every correct answer C, also one that is empty or normalizes to
\* the empty string, evaluate_answer with an empty or whitespace-only user
\* answer returns is_correct = FALSE with the feedback quoting C, from the
\* check that precedes every other step; and every result run_quiz stores
\* for an empty answer is marked incorrect.
C13_BlankIsIncorrect ==
    /\ (EvalDone /\ strip(user_answer) = "") =>
          /\ ~verdict.is_correct
          /\ verdict.feedback = "Incorrect. The correct answer is: " \o correct_answer
          /\ verdict.line = 156
    /\ \A i \in 1..Len(results) :
          results[i].user_answer = "" => ~results[i].is_correct

\* a whitespace-only answer was judged against a correct answer of
\* punctuation only, which the exact-match step would have accepted
C13_Witness ==
    /\ EvalDone
    /\ user_answer # "" /\ strip(user_answer) = ""
    /\ correct_answer # "" /\ _normalize_text(correct_answer) = ""
    /\ _normalize_text(user_answer) = _normalize_text(correct_answer)

\* C14: the evaluator is reflexive: for every text X that is non-empty after
\* normalization, evaluate_answer(X, X) returns is_correct = TRUE, whatever
\* the similarity threshold.
C14_Reflexive ==
    (EvalDone /\ user_answer = correct_answer /\ _normalize_text(user_answer) # "") =>
        verdict.is_correct

\* a text that normalization changes was judged against itself under the
\* strictest threshold
C14_Witness ==
    /\ EvalDone
    /\ user_answer = correct_answer
    /\ _normalize_text(user_answer) # ""
    /\ _normalize_text(user_answer) # user_answer
    /\ similarity_threshold = <<1, 1>>

\* the verdict came from the final step with a fuzzy score above 0.3
C15_Close ==
    LET score == _fuzzy_match(user_answer, correct_answer)
    IN /\ verdict.line = 187
       /\ 10 * score[1] > 3 * score[2]

\* the feedback ends with a similarity percentage
C15_Suffixed(feedback, base) ==
    LET opening == " (Your answer was close: "
        closing == "% similar)"
    IN /\ Len(feedback) > Len(base) + Len(opening) + Len(closing)
       /\ Prefix(feedback, Len(base) + Len(opening)) = base \o opening
       /\ Suffix(feedback, Len(feedback) - Len(closing)) = closing
       /\ \A i \in (Len(base) + Len(opening) + 1)..(Len(feedback) - Len(closing)) :
              Ch(feedback, i) \in DigitSet

\* C15: evaluate_answer returns the feedback 'Correct!' whenever is_correct
\* is TRUE; whenever it is FALSE the feedback is 'Incorrect. The correct
\* answer is: ' followed by the correct answer as given, and the similarity
\* percentage is appended exactly when the verdict was reached at the final
\* step with a fuzzy score above 0.3, never for a blank user answer.
C15_Feedback ==
    EvalDone =>
        IF verdict.is_correct THEN verdict.feedback = "Correct!"
        ELSE IF C15_Close /\ strip(user_answer) # ""
        THEN C15_Suffixed(verdict.feedback,
                          "Incorrect. The correct answer is: " \o correct_answer)
        ELSE verdict.feedback = "Incorrect. The correct answer is: " \o correct_answer

\* a wrong answer close enough for the percentage, to a correct answer that
\* normalization changes
C15_Witness ==
    /\ EvalDone
    /\ ~verdict.is_correct
    /\ C15_Close
    /\ correct_answer # _normalize_text(correct_answer)
    /\ verdict.feedback # "Incorrect. The correct answer is: " \o correct_answer

(***************************************************************************)
(* _normalize_text on its own: a text is normalized, and the result is     *)
(* normalized again, up to MaxNormalizations calls in all.                 *)
(***************************************************************************)
MaxNormalizations == 2

NormTexts ==
    UserAnswers \cup CorrectAnswers
    \cup {" The  sprint lasts 2 weeks! ", "R2-D2", "snake_case", "\tTab\n",
          "quick ! fox", "Agile - Scrum"}

InitNorm ==
    /\ SynthIdle
    /\ GenIdle
    /\ QuizIdle
    /\ similarity_threshold = <<6, 10>>
    /\ user_answer = ""
    /\ correct_answer = ""
    /\ verdict = NoVerdict
    /\ given_text \in NormTexts
    /\ normalized = <<>>

\* _normalize_text(text), then _normalize_text of what it returned
Normalize ==
    /\ Len(normalized) < MaxNormalizations
    /\ normalized' = Append(normalized,
                            _normalize_text(IF normalized = <<>> THEN given_text
                                            ELSE normalized[Len(normalized)]))
    /\ UNCHANGED <<similarity_threshold, user_answer, correct_answer, verdict, given_text>>
    /\ UNCHANGED <<synthVars, genVars, quizVars>>

NextNorm == Normalize

SpecNorm == InitNorm /\ [][NextNorm]_vars

\* C16: normalization is idempotent: for every text x,
\* _normalize_text(_normalize_text(x)) = _normalize_text(x).
C16_Idempotent ==
    \A i \in 2..Len(normalized) : normalized[i] = normalized[1]

\* a text that normalization changes, to something not empty, was
\* normalized twice
C16_Witness ==
    /\ Len(normalized) >= 2
    /\ normalized[1] # given_text
    /\ normalized[1] # ""
    /\ \E i \in 1..Len(given_text) : Ch(given_text, i) \notin WordSet \cup SpaceSet

\* C17: for every input text, _normalize_text returns a string made only of
\* lowercase letters and digits separated by single spaces, with no leading
\* or trailing whitespace: every character that is neither alphanumeric nor
\* whitespace, the underscore included, is removed, and the empty input
\* gives the empty output.
C17_LettersAndDigits ==
    Len(normalized) >= 1 =>
        /\ \A i \in 1..Len(normalized[1]) :
              /\ Ch(normalized[1], i) \in LowerSet \cup DigitSet \cup {" "}
              /\ Ch(normalized[1], i) = " " =>
                    /\ 1 < i /\ i < Len(normalized[1])
                    /\ Ch(normalized[1], i + 1) # " "
        /\ given_text = "" => normalized[1] = ""

(***************************************************************************)
(* A generator is constructed; generate_questions is called on it, or a    *)
(* quiz runner is made with it and run.                                    *)
(***************************************************************************)
NextGenQuiz == Construct \/ Generate \/ RunQuiz

SpecGenQuiz == InitGen /\ [][NextGenQuiz]_vars

\* C18: when the document yields zero corpus sentences, generate_questions
\* (topic, n) returns the empty list without raising, for every topic or
\* none and every n >= 0, and run_quiz then returns the record with total
\* 0, correct 0, accuracy 0.0 and no results.
C18_EmptyCorpus ==
    (generator = "constructed" /\ sentences = <<>> /\ op.name # "" /\ op.n >= 0) =>
        /\ ~op.raised
        /\ questions = <<>>
        /\ op.name = "run_quiz" =>
              returned = [total |-> 0, correct |-> 0, accuracy |-> <<0, 1>>,
                          results |-> <<>>]

\* run_quiz was called for questions, with no topic, on a runner whose
\* generator holds no sentence
C18_Witness ==
    /\ generator = "constructed"
    /\ sentences = <<>>
    /\ op.name = "run_quiz"
    /\ op.topic = NoTopic
    /\ op.n >= 1
    /\ returned = NoSummary

\* C19: over the corpus of the Agile, Waterfall and Scrum sentences,
\* generate_questions("agile", 1) returns exactly one record, whose question
\* is "What is Agile?" and whose answer contains "iterative software
\* development methodology".
C19_Scenario ==
    (GenerateDone /\ sentences = ScenarioDocument /\ op.topic = "agile" /\ op.n = 1) =>
        /\ Len(questions) = 1
        /\ questions[1].question = "What is Agile?"
        /\ IsSubstring("iterative software development methodology",
                       questions[1].answer)

(***************************************************************************)
(* C20: over the corpus of the Agile, Waterfall and Scrum sentences,       *)
(* answer_question("what is agile") returns a string that contains         *)
(* "iterative software development methodology", and obtains it from the   *)
(* definition pattern "<term> is <Y>".                                     *)
(***************************************************************************)
C20_Scenario ==
    (/\ op.name = "answer_question"
     /\ op.topic = "what is agile"
     /\ sentences = ScenarioDocument)
    => /\ ~answered.none
       /\ answered.via = 1
       /\ IsSubstring("iterative software development methodology", answered.answer)

(***************************************************************************)
(* C21: evaluate_answer("iterative development", "an iterative software    *)
(* development methodology") is judged correct at the fuzzy step, the      *)
(* combined fuzzy score of the pair being at least the 0.6 threshold.      *)
(***************************************************************************)
C21_Scenario ==
    /\ EvalDone
    /\ similarity_threshold = <<6, 10>>
    /\ user_answer = ScenarioUserAnswer
    /\ correct_answer = ScenarioCorrectAnswer

C22_FailureRun(i) ==
    Cardinality({k \in 1..i : \A j \in k..i : attempts[j].outcome # "record"})

C22_StopsAtFifty ==
    GenerateDone
    => \A i \in 1..Len(attempts) :
            attempts[i].pass = 1 => C22_FailureRun(i) <= ConsecutiveFailureLimit

(***************************************************************************)
(* C23: on the vector-similarity path, two returned sentences of equal     *)
(* similarity to the topic appear in original corpus order, the sentence   *)
(* with the lower corpus index first.                                      *)
(***************************************************************************)
C23_TiesInCorpusOrder ==
    (op.name = "_find_relevant_sentences" /\ ranking.path = "vector") =>
        \A k, l \in 1..Len(ranking.relevant) :
            (/\ k < l
             /\ ranking.similarities[RankedIndex(k)] = ranking.similarities[RankedIndex(l)])
            => RankedIndex(k) < RankedIndex(l)

(***************************************************************************)
(* C24: on the keyword fallback path (index never built, or the query      *)
(* raised) _find_relevant_sentences(topic, n) scores each sentence by the  *)
(* number of distinct lowercased topic words that are substrings of the    *)
(* lowercased sentence, returns only sentences scoring above 0, in         *)
(* non-increasing score order with ties in corpus order, and the first n   *)
(* of them; the two implementations of the path return the same list.      *)
(***************************************************************************)
\* the words of the lowercased topic, each once: its maximal runs of
\* characters that are not whitespace
C24_TopicWords ==
    LET t == lower(op.topic)
        IsWord(a, b) ==
            /\ a <= b
            /\ \A c \in a..b : Ch(t, c) \notin SpaceSet
            /\ a = 1 \/ Ch(t, a - 1) \in SpaceSet
            /\ b = Len(t) \/ Ch(t, b + 1) \in SpaceSet
    IN {SubSeq(t, x[1], x[2]) : x \in {y \in (1..Len(t)) \X (1..Len(t)) : IsWord(y[1], y[2])}}

C24_Score(i) ==
    Cardinality({w \in C24_TopicWords : IsSubstring(w, lower(sentences[i]))})

\* sentence i comes before sentence j: the higher score, or the same score
\* and the earlier place in the corpus
C24_Before(i, j) ==
    \/ C24_Score(i) > C24_Score(j)
    \/ C24_Score(i) = C24_Score(j) /\ i < j

C24_KeywordRanking ==
    (op.name = "_find_relevant_sentences" /\ ranking.path \in {"keyword", "fallback"}) =>
        LET scoring == {i \in 1..Len(sentences) : C24_Score(i) > 0}
            returned_ == {RankedIndex(k) : k \in 1..Len(ranking.relevant)}
        IN /\ Len(ranking.relevant) = Min(op.n, Cardinality(scoring))
           /\ Cardinality(returned_) = Len(ranking.relevant)
           /\ returned_ \subseteq scoring
           /\ \A k \in 1..(Len(ranking.relevant) - 1) :
                  C24_Before(RankedIndex(k), RankedIndex(k + 1))
           /\ \A i \in returned_, j \in scoring \ returned_ : C24_Before(i, j)

\* the query raised; the topic repeats a word, two sentences hold one topic
\* word each and come back in corpus order, and n leaves a third out
C24_Witness ==
    /\ op.name = "_find_relevant_sentences"
    /\ ranking.path = "fallback"
    /\ op.topic = "sprint Sprint agile"
    /\ op.n = 2
    /\ Len(ranking.relevant) = 2
    /\ C24_Score(RankedIndex(1)) = C24_Score(RankedIndex(2))
    /\ \E j \in 1..Len(sentences) :
            C24_Score(j) > 0 /\ sentences[j] \notin Range(ranking.relevant)

(***************************************************************************)
(* Calls made one after the other on one generator, constructed over one   *)
(* of QuizCorpora.  generate_questions, _find_relevant_sentences and       *)
(* answer_question assign nothing to self.sentences; the operations that   *)
(* change a list in place are relevant.sort (a list of pairs, new in each  *)
(* call), questions.append and the random.shuffle of pass 3.               *)
(* random.sample returns a new list and leaves its population as it was.   *)
(***************************************************************************)
\* all_remaining taken for self.sentences itself, which the shuffle then
\* permutes
CorpusShuffled(sents, shuffled) == shuffled

\* self.sentences after random.shuffle(all_remaining): all_remaining is a
\* list of its own, built by the comprehension of line 597
CorpusAfterShuffle(sents, shuffled) == sents

\* self.sentences after generate_questions returned these questions for
\* num_questions: pass 3 and its shuffle were reached whenever fewer came back
CorpusAfterGenerate(sents, num_questions, questions_) ==
    LET Shuffles(all_remaining) ==
            {CorpusAfterShuffle(sents, shuffled) :
                shuffled \in sample(all_remaining, Len(all_remaining))}
    IN IF Len(questions_) < num_questions
       THEN Shuffles(SelectSeq(sents, LAMBDA s : Len(strip(s)) > 15))
       ELSE {sents}

\* the arguments of the calls
CallTopics == {"agile"}
CallCounts == {1, BulkQuestions}

\* what the calls can return, for each generator of QuizCorpora: the
\* questions, the path taken with the sentences ranked, the answer
CallGenerated ==
    [sents \in QuizCorpora,
     vectorizer_ \in {"None", "fitted"}, tagger_ \in Taggers,
     topic \in CallTopics \cup {NoTopic}, num_questions \in CallCounts |->
        {g.questions : g \in generate_questions(sents, vectorizer_, tagger_, topic,
                                                num_questions)}]

CallRanked ==
    [sents \in QuizCorpora, vectorizer_ \in {"None", "fitted"},
     topic \in CallTopics, n_sentences \in CallCounts |->
        {[path |-> r.path, similarities |-> <<>>, relevant |-> r.relevant] :
            r \in _find_relevant_sentences(sents, vectorizer_, topic, n_sentences)}]

CallAnswered ==
    [sents \in QuizCorpora, vectorizer_ \in {"None", "fitted"},
     question \in AskedQuestions |-> answer_question(sents, vectorizer_, question)]

\* generate_questions(topic, n) on a generator that may have been called
\* before; the synthesis calls are not kept, and the answer of an earlier
\* answer_question call stays on record
CallGenerate ==
    /\ generator = "constructed"
    /\ sentences \in QuizCorpora
    /\ \E topic \in CallTopics \cup {NoTopic}, n \in CallCounts :
        \E generated \in CallGenerated[sentences, vectorizer, tagger, topic, n] :
            /\ op' = [name |-> "generate_questions", topic |-> topic, n |-> n,
                      raised |-> FALSE]
            /\ questions' = generated
            /\ sentences' \in CorpusAfterGenerate(sentences, n, generated)
    /\ ranking' = NoRanking
    /\ attempts' = <<>>
    /\ UNCHANGED <<generator, vectorizer, answered>>
    /\ UNCHANGED <<evalVars, synthVars, quizVars>>

\* _find_relevant_sentences(topic, n), likewise; the scores are not kept
CallFindRelevant ==
    /\ generator = "constructed"
    /\ sentences \in QuizCorpora
    /\ \E topic \in CallTopics, n \in CallCounts :
        \E r \in CallRanked[sentences, vectorizer, topic, n] :
            /\ op' = [name |-> "_find_relevant_sentences", topic |-> topic, n |-> n,
                      raised |-> FALSE]
            /\ ranking' = r
    /\ questions' = <<>>
    /\ attempts' = <<>>
    /\ UNCHANGED <<generator, sentences, vectorizer, answered>>
    /\ UNCHANGED <<evalVars, synthVars, quizVars>>

\* answer_question(question), likewise
CallAnswerQuestion ==
    /\ generator = "constructed"
    /\ sentences \in QuizCorpora
    /\ \E question \in AskedQuestions :
        \E answer \in CallAnswered[sentences, vectorizer, question] :
            /\ op' = [name |-> "answer_question", topic |-> question, n |-> 5,
                      raised |-> FALSE]
            /\ answered' = answer
    /\ ranking' = NoRanking
    /\ questions' = <<>>
    /\ attempts' = <<>>
    /\ UNCHANGED <<generator, sentences, vectorizer>>
    /\ UNCHANGED <<evalVars, synthVars, quizVars>>

NextCalls == CallGenerate \/ CallFindRelevant \/ CallAnswerQuestion

SpecCalls == InitQuiz /\ [][NextCalls]_vars

C26_LongEnough(outcome) ==
    /\ Len(CleanQuestion(outcome.question)) > 10
    /\ Len(CleanAnswer(outcome.answer)) > 5

C26_NoLaterStrategy ==
    (SynthDone /\ Len(strip(sentence)) >= MinSentenceLen) =>
        LET producing == Producing
        IN  (/\ producing # {}
             /\ ~C26_LongEnough(StrategyOutcome(First(producing))))
            => q_data.none

\* the first strategy to produce a question gave one too short or an answer
\* too short, a later strategy produces a record that is long enough, and
\* None was returned
C26_Witness ==
    /\ SynthDone
    /\ Len(strip(sentence)) >= MinSentenceLen
    /\ q_data.none
    /\ q_data.strategy > 0
    /\ ~C26_LongEnough(StrategyOutcome(q_data.strategy))
    /\ \E i \in (q_data.strategy + 1)..9 :
           StrategyOutcome(i).hit /\ C26_LongEnough(StrategyOutcome(i))

====
